---- MODULE Spec2Model ----
(***************************************************************************)
(* State-machine model of the to-do list service: ProjectService and       *)
(* TaskService (core/services.py) over the in-memory repositories          *)
(* (core/repository.py) and over the SQLAlchemy repositories               *)
(* (repositories/sqlalchemy_*.py), the overdue-closing job                 *)
(* (commands/autoclose_overdue.py) and the transactional scopes            *)
(* (db/session.py, api/v1/*.py get_db).                                    *)
(*                                                                         *)
(* Text is a sequence of one-character strings, so that strip(), lower()   *)
(* and split() are computed and not assumed.  A datetime is an integer     *)
(* number of ticks, TicksPerDay ticks to a calendar day; a date is the     *)
(* tick of its midnight.                                                   *)
(***************************************************************************)
EXTENDS Integers, Sequences, FiniteSets, TLC

VARIABLES
    backend,     \* "mem": core/repository.py, "db": repositories/sqlalchemy_*.py
    projects,    \* id -> [name, description, created_at]   (_by_id / table projects)
    by_name,     \* lower(name) -> id        (ProjectRepository._by_name, "mem" only)
    tasks,       \* id -> task record        (_by_id / table tasks)
    by_project,  \* project id -> set of task ids (TaskRepository._by_project, "mem" only)
    next_pid,    \* next value of models._id_counter / projects.id sequence
    next_tid,    \* next value of models._task_id_counter / tasks.id sequence
    clock,       \* current time in ticks
    last,        \* the last operation and its outcome: [op, res, n, ref]
    sess,        \* the two database sessions: "J" session_scope(), "U" get_db()
    db0          \* the store at the start

svars == <<backend, projects, by_name, tasks, by_project, next_pid, next_tid, clock, last,
           sess, db0>>

-----------------------------------------------------------------------------
(* Bounds of the model *)

MaxPid == 3
MaxTid == 3
MaxClock == 2
TicksPerDay == 2

(* Python None for Optional[str] / Optional[int] / Optional[date] *)
None == <<"None">>
NoId == 0
NoDate == -1

-----------------------------------------------------------------------------
(* Text *)

\* the whitespace str.split() and str.strip() recognise
IsSpace(c) == c \in {" ", "\t", "\n"}

lower_char(c) ==
    CASE c = "A" -> "a"
      [] c = "B" -> "b"
      [] c = "D" -> "d"
      [] c = "E" -> "e"
      [] c = "N" -> "n"
      [] c = "O" -> "o"
      [] OTHER -> c

lower(s) == [i \in 1..Len(s) |-> lower_char(s[i])]

RECURSIVE lstrip(_)
lstrip(s) == IF s = <<>> THEN s
             ELSE IF IsSpace(Head(s)) THEN lstrip(Tail(s)) ELSE s

RECURSIVE rstrip(_)
rstrip(s) == IF s = <<>> THEN s
             ELSE IF IsSpace(s[Len(s)]) THEN rstrip(SubSeq(s, 1, Len(s) - 1)) ELSE s

strip(s) == rstrip(lstrip(s))

\* the number of characters in place of the number of words
char_count(s) == IF s = None THEN 0 ELSE Len(s)

\* core/utils.py: the number of tokens of s.split(), one per maximal run of
\* non-blank characters; None and "" count 0.
word_count(s) ==
    IF s = None \/ s = <<>> THEN 0
    ELSE Cardinality({i \in 1..Len(s) : ~IsSpace(s[i]) /\ (i = 1 \/ IsSpace(s[i - 1]))})

\* equality ignoring letter case
SameNoCase(a, b) == lower(a) = lower(b)

-----------------------------------------------------------------------------
(* Program constants *)

NAME_MAX_WORDS == 30
DESC_MAX_WORDS == 150
TASK_TITLE_MAX_WORDS == 30
TASK_DESC_MAX_WORDS == 150
TASK_STATUSES == {<<"t","o","d","o">>, <<"d","o","i","n","g">>, <<"d","o","n","e">>}
TODO == <<"t","o","d","o">>
DOING == <<"d","o","i","n","g">>
DONE == <<"d","o","n","e">>

\* config/settings.py: read from the environment (default 100)
MAX_NUMBER_OF_PROJECT == 2
MAX_NUMBER_OF_TASK == 2

-----------------------------------------------------------------------------
(* Dictionaries *)

Put(f, k, v) == [x \in (DOMAIN f) \cup {k} |-> IF x = k THEN v ELSE f[x]]
Pop(f, k) == [x \in (DOMAIN f) \ {k} |-> f[x]]
EmptyMap == <<>>

Store == [projects |-> projects, by_name |-> by_name, tasks |-> tasks,
          by_project |-> by_project, next_pid |-> next_pid, next_tid |-> next_tid]

EmptyStore == [projects |-> EmptyMap, by_name |-> EmptyMap, tasks |-> EmptyMap,
               by_project |-> EmptyMap, next_pid |-> 1, next_tid |-> 1]

\* the result of a call: the store afterwards, "ok" or the error raised, the
\* id of the entity returned (NoId when none)
Ret(S, res, id) == [S |-> S, res |-> res, id |-> id]

-----------------------------------------------------------------------------
(* core/repository.py: ProjectRepository (in-memory) *)

Mem_project_add(S, id, p) ==
    [S EXCEPT !.projects = Put(S.projects, id, p),
              !.by_name = Put(S.by_name, lower(p.name), id)]

\* the lookup without lower(): a case-sensitive index probe
Mem_get_by_name_exact(S, name) ==
    LET pid == IF name \in DOMAIN S.by_name THEN S.by_name[name] ELSE NoId
    IN IF pid # NoId /\ pid \in DOMAIN S.projects THEN pid ELSE NoId

Mem_get_by_name(S, name) ==
    LET k == lower(name)
        pid == IF k \in DOMAIN S.by_name THEN S.by_name[k] ELSE NoId
    IN IF pid # NoId /\ pid \in DOMAIN S.projects THEN pid ELSE NoId

\* ProjectRepository.update that leaves the old key in the name index
Mem_project_update_keep_key(S, pid, name, description) ==
    LET p == S.projects[pid]
        S1 == IF name # None /\ lower(name) # lower(p.name)
              THEN [S EXCEPT !.by_name = Put(S.by_name, lower(name), pid),
                             !.projects[pid].name = name]
              ELSE S
    IN IF description # None
       THEN [S1 EXCEPT !.projects[pid].description = description]
       ELSE S1

Mem_project_update(S, pid, name, description) ==
    LET p == S.projects[pid]
        renamed == name # None /\ lower(name) # lower(p.name)
        S1 == IF renamed
              THEN [S EXCEPT !.by_name = Put(Pop(S.by_name, lower(p.name)), lower(name), pid),
                             !.projects[pid].name = name]
              ELSE S
    IN IF description # None
       THEN [S1 EXCEPT !.projects[pid].description = description]
       ELSE S1

Mem_project_delete(S, pid) ==
    IF pid \notin DOMAIN S.projects THEN S
    ELSE [S EXCEPT !.projects = Pop(S.projects, pid),
                   !.by_name = Pop(S.by_name, lower(S.projects[pid].name))]

(* core/repository.py: TaskRepository (in-memory) *)

Mem_task_add(S, id, t) ==
    [S EXCEPT !.tasks = Put(S.tasks, id, t),
              !.by_project = Put(S.by_project, t.project_id,
                                 (IF t.project_id \in DOMAIN S.by_project
                                  THEN S.by_project[t.project_id] ELSE {}) \cup {id})]

Mem_delete_by_project(S, project_id) ==
    LET ids == IF project_id \in DOMAIN S.by_project THEN S.by_project[project_id] ELSE {}
    IN [S EXCEPT !.by_project = Pop(S.by_project, project_id),
                 !.tasks = [t \in (DOMAIN S.tasks) \ ids |-> S.tasks[t]]]

\* TaskRepository.delete that leaves the emptied set of the project behind
Mem_task_delete_keep_empty(S, task_id) ==
    IF task_id \notin DOMAIN S.tasks THEN S
    ELSE LET pid == S.tasks[task_id].project_id
             ids == IF pid \in DOMAIN S.by_project THEN S.by_project[pid] ELSE {}
         IN [S EXCEPT !.tasks = Pop(S.tasks, task_id),
                      !.by_project = IF ids = {} THEN S.by_project
                                     ELSE Put(S.by_project, pid, ids \ {task_id})]

Mem_task_delete(S, task_id) ==
    IF task_id \notin DOMAIN S.tasks THEN S
    ELSE LET pid == S.tasks[task_id].project_id
             ids == IF pid \in DOMAIN S.by_project THEN S.by_project[pid] ELSE {}
             rest == ids \ {task_id}
         IN [S EXCEPT !.tasks = Pop(S.tasks, task_id),
                      !.by_project = IF ids = {} THEN S.by_project
                                     ELSE IF rest = {} THEN Pop(S.by_project, pid)
                                     ELSE Put(S.by_project, pid, rest)]

-----------------------------------------------------------------------------
(* repositories/sqlalchemy_project.py, models/project.py *)

\* INSERT INTO projects; the table's UNIQUE(name) compares names exactly
Sql_project_add(S, id, p) == [S EXCEPT !.projects = Put(S.projects, id, p)]

\* SELECT ... WHERE projects.name = :name, scalar_one_or_none()
Sql_get_by_name(S, name) ==
    LET hit == {pid \in DOMAIN S.projects : S.projects[pid].name = name}
    IN IF hit = {} THEN NoId ELSE CHOOSE pid \in hit : TRUE

Sql_project_update(S, pid, name, description) ==
    LET S1 == IF name # None THEN [S EXCEPT !.projects[pid].name = name] ELSE S
    IN IF description # None
       THEN [S1 EXCEPT !.projects[pid].description = description]
       ELSE S1

\* session.delete(orm): Project.tasks has cascade="all, delete-orphan" and
\* tasks.project_id is ON DELETE CASCADE, so the project's task rows go too
Sql_project_delete(S, pid) ==
    IF pid \notin DOMAIN S.projects THEN S
    ELSE [S EXCEPT !.projects = Pop(S.projects, pid),
                   !.tasks = [t \in {x \in DOMAIN S.tasks : S.tasks[x].project_id # pid}
                              |-> S.tasks[t]]]

(* repositories/sqlalchemy_task.py *)

Sql_task_add(S, id, t) == [S EXCEPT !.tasks = Put(S.tasks, id, t)]

Sql_task_delete(S, task_id) ==
    IF task_id \notin DOMAIN S.tasks THEN S
    ELSE [S EXCEPT !.tasks = Pop(S.tasks, task_id)]

-----------------------------------------------------------------------------
(* The repository a service was constructed with *)

get_by_name(S, b, name) ==
    IF b = "mem" THEN Mem_get_by_name(S, name) ELSE Sql_get_by_name(S, name)

project_get_by_id(S, pid) == IF pid \in DOMAIN S.projects THEN pid ELSE NoId

project_count(S) == Cardinality(DOMAIN S.projects)

project_add(S, b, id, p) ==
    IF b = "mem" THEN Mem_project_add(S, id, p) ELSE Sql_project_add(S, id, p)

project_update(S, b, pid, name, description) ==
    IF b = "mem" THEN Mem_project_update(S, pid, name, description)
    ELSE Sql_project_update(S, pid, name, description)

\* a ProjectService constructed without the hook
cascade_none(S, b, pid) == S

\* cli.py passes cascade_delete_tasks = _task_repo.delete_by_project;
\* api/v1/projects.py passes no hook and relies on the ORM cascade
cascade_delete_tasks(S, b, pid) ==
    IF b = "mem" THEN Mem_delete_by_project(S, pid) ELSE S

project_delete(S, b, pid) ==
    IF b = "mem" THEN Mem_project_delete(S, pid) ELSE Sql_project_delete(S, pid)

task_get_by_id(S, tid) == IF tid \in DOMAIN S.tasks THEN tid ELSE NoId

task_count(S) == Cardinality(DOMAIN S.tasks)

task_add(S, b, id, t) ==
    IF b = "mem" THEN Mem_task_add(S, id, t) ELSE Sql_task_add(S, id, t)

task_delete(S, b, tid) ==
    IF b = "mem" THEN Mem_task_delete(S, tid) ELSE Sql_task_delete(S, tid)

-----------------------------------------------------------------------------
(* core/services.py: ProjectService *)

\* create_project with the uniqueness test before the limit test
create_project_dup_first(S, b, name, description, now) ==
    IF word_count(name) > NAME_MAX_WORDS THEN Ret(S, "ValidationError", NoId)
    ELSE IF word_count(description) > DESC_MAX_WORDS THEN Ret(S, "ValidationError", NoId)
    ELSE IF get_by_name(S, b, name) # NoId THEN Ret(S, "DuplicateProjectName", NoId)
    ELSE IF project_count(S) >= MAX_NUMBER_OF_PROJECT THEN Ret(S, "ProjectLimitReached", NoId)
    ELSE LET id == S.next_pid
             p == [name |-> name, description |-> description, created_at |-> now]
         IN Ret(project_add([S EXCEPT !.next_pid = id + 1], b, id, p), "ok", id)

\* create_project with > in place of >= in the limit test
create_project_limit_gt(S, b, name, description, now) ==
    IF word_count(name) > NAME_MAX_WORDS THEN Ret(S, "ValidationError", NoId)
    ELSE IF word_count(description) > DESC_MAX_WORDS THEN Ret(S, "ValidationError", NoId)
    ELSE IF project_count(S) > MAX_NUMBER_OF_PROJECT THEN Ret(S, "ProjectLimitReached", NoId)
    ELSE IF get_by_name(S, b, name) # NoId THEN Ret(S, "DuplicateProjectName", NoId)
    ELSE LET id == S.next_pid
             p == [name |-> name, description |-> description, created_at |-> now]
         IN Ret(project_add([S EXCEPT !.next_pid = id + 1], b, id, p), "ok", id)

\* create_project on a store that numbers a new row one above the highest
\* id present
create_project_max_id(S, b, name, description, now) ==
    IF word_count(name) > NAME_MAX_WORDS THEN Ret(S, "ValidationError", NoId)
    ELSE IF word_count(description) > DESC_MAX_WORDS THEN Ret(S, "ValidationError", NoId)
    ELSE IF project_count(S) >= MAX_NUMBER_OF_PROJECT THEN Ret(S, "ProjectLimitReached", NoId)
    ELSE IF get_by_name(S, b, name) # NoId THEN Ret(S, "DuplicateProjectName", NoId)
    ELSE LET id == IF DOMAIN S.projects = {} THEN 1
                   ELSE 1 + CHOOSE m \in DOMAIN S.projects :
                                \A x \in DOMAIN S.projects : x <= m
             p == [name |-> name, description |-> description, created_at |-> now]
         IN Ret(project_add([S EXCEPT !.next_pid = id + 1], b, id, p), "ok", id)

create_project(S, b, name, description, now) ==
    IF word_count(name) > NAME_MAX_WORDS THEN Ret(S, "ValidationError", NoId)
    ELSE IF word_count(description) > DESC_MAX_WORDS THEN Ret(S, "ValidationError", NoId)
    ELSE IF project_count(S) >= MAX_NUMBER_OF_PROJECT THEN Ret(S, "ProjectLimitReached", NoId)
    ELSE IF get_by_name(S, b, name) # NoId THEN Ret(S, "DuplicateProjectName", NoId)
    ELSE LET id == S.next_pid
             p == [name |-> name, description |-> description, created_at |-> now]
         IN Ret(project_add([S EXCEPT !.next_pid = id + 1], b, id, p), "ok", id)

\* the raise statement create_project stops at, named by the subject of
\* its message: "name", "description", "limit", "unique", or "none" when the
\* project is stored
create_project_raise(S, b, name, description) ==
    IF word_count(name) > NAME_MAX_WORDS THEN "name"
    ELSE IF word_count(description) > DESC_MAX_WORDS THEN "description"
    ELSE IF project_count(S) >= MAX_NUMBER_OF_PROJECT THEN "limit"
    ELSE IF get_by_name(S, b, name) # NoId THEN "unique"
    ELSE "none"

\* update_project looking the project up before anything else
update_project_lookup_first(S, b, pid, name, description) ==
    IF project_get_by_id(S, pid) = NoId THEN Ret(S, "ProjectNotFound", NoId)
    ELSE IF name = None /\ description = None THEN Ret(S, "ValidationError", NoId)
    ELSE Ret(project_update(S, b, pid, name, description), "ok", pid)

update_project(S, b, pid, name, description) ==
    IF name = None /\ description = None THEN Ret(S, "ValidationError", NoId)
    ELSE IF project_get_by_id(S, pid) = NoId THEN Ret(S, "ProjectNotFound", NoId)
    ELSE LET nm == IF name # None THEN strip(name) ELSE None
             existing == IF name # None THEN get_by_name(S, b, nm) ELSE NoId
         IN IF name # None /\ nm = <<>> THEN Ret(S, "ValidationError", NoId)
            ELSE IF name # None /\ word_count(nm) > NAME_MAX_WORDS
                 THEN Ret(S, "ValidationError", NoId)
            ELSE IF name # None /\ existing # NoId /\ existing # pid
                 THEN Ret(S, "DuplicateProjectName", NoId)
            ELSE IF description # None /\ word_count(description) > DESC_MAX_WORDS
                 THEN Ret(S, "ValidationError", NoId)
            ELSE Ret(project_update(S, b, pid, nm, description), "ok", pid)

delete_project(S, b, pid) ==
    IF project_get_by_id(S, pid) = NoId THEN Ret(S, "ProjectNotFound", NoId)
    ELSE Ret(project_delete(cascade_delete_tasks(S, b, pid), b, pid), "ok", NoId)

-----------------------------------------------------------------------------
(* Dates: date.fromisoformat and the proleptic Gregorian ordinal of a date *)

Digits == {"0", "1", "2", "3", "4", "5", "6", "7", "8", "9"}

DigitVal(c) ==
    CASE c = "0" -> 0 [] c = "1" -> 1 [] c = "2" -> 2 [] c = "3" -> 3 [] c = "4" -> 4
      [] c = "5" -> 5 [] c = "6" -> 6 [] c = "7" -> 7 [] c = "8" -> 8 [] OTHER -> 9

RECURSIVE ToInt(_)
ToInt(s) == IF s = <<>> THEN 0
            ELSE 10 * ToInt(SubSeq(s, 1, Len(s) - 1)) + DigitVal(s[Len(s)])

AllDigits(s) == \A i \in 1..Len(s) : s[i] \in Digits

IsLeap(y) == (y % 4 = 0 /\ y % 100 # 0) \/ y % 400 = 0

DaysInMonth(y, m) ==
    IF m \in {1, 3, 5, 7, 8, 10, 12} THEN 31
    ELSE IF m \in {4, 6, 9, 11} THEN 30
    ELSE IF IsLeap(y) THEN 29 ELSE 28

RECURSIVE DaysBeforeMonth(_, _)
DaysBeforeMonth(y, m) ==
    IF m <= 1 THEN 0 ELSE DaysBeforeMonth(y, m - 1) + DaysInMonth(y, m - 1)

ymd2ord(y, m, d) ==
    LET p == y - 1
    IN p * 365 + (p \div 4) - (p \div 100) + (p \div 400) + DaysBeforeMonth(y, m) + d

ValidYmd(y, m, d) == y >= 1 /\ m \in 1..12 /\ d >= 1 /\ d <= DaysInMonth(y, m)

\* a date is kept as the tick of its midnight
DateOf(y, m, d) == ymd2ord(y, m, d) * TicksPerDay

\* date.fromisoformat (Python 3.11 and later, which datetime.UTC in
\* commands/autoclose_overdue.py requires): YYYY-MM-DD and the basic form
\* YYYYMMDD; [ok |-> FALSE] stands for the ValueError
fromisoformat(s) ==
    LET ext == Len(s) = 10 /\ s[5] = "-" /\ s[8] = "-"
               /\ AllDigits(SubSeq(s, 1, 4)) /\ AllDigits(SubSeq(s, 6, 7))
               /\ AllDigits(SubSeq(s, 9, 10))
        bas == Len(s) = 8 /\ AllDigits(s)
        y == ToInt(SubSeq(s, 1, 4))
        m == IF ext THEN ToInt(SubSeq(s, 6, 7)) ELSE ToInt(SubSeq(s, 5, 6))
        d == IF ext THEN ToInt(SubSeq(s, 9, 10)) ELSE ToInt(SubSeq(s, 7, 8))
    IN IF (ext \/ bas) /\ ValidYmd(y, m, d)
       THEN [ok |-> TRUE, d |-> DateOf(y, m, d)]
       ELSE [ok |-> FALSE, d |-> NoDate]

\* datetime.date(): the calendar day of a datetime
date_of(t) == IF t = NoDate THEN NoDate ELSE (t \div TicksPerDay) * TicksPerDay

\* A deadline argument: None, a text, or a date / datetime object
DlNone == [kind |-> "none", s |-> <<>>, t |-> NoDate]
DlStr(s) == [kind |-> "str", s |-> s, t |-> NoDate]
DlDate(t) == [kind |-> "date", s |-> <<>>, t |-> t]

-----------------------------------------------------------------------------
(* core/services.py: TaskService *)

_parse_deadline(deadline) ==
    IF deadline.kind = "none" \/ (deadline.kind = "str" /\ deadline.s = <<>>)
    THEN [ok |-> TRUE, d |-> NoDate]
    ELSE IF deadline.kind = "date" THEN [ok |-> TRUE, d |-> deadline.t]
    ELSE fromisoformat(deadline.s)

\* (status or dflt).strip().lower()
norm_status(status, dflt) ==
    lower(strip(IF status = None \/ status = <<>> THEN dflt ELSE status))

Mem_task_update(S, tid, title, description, status, dl) ==
    LET t == S.tasks[tid]
    IN [S EXCEPT !.tasks[tid] =
          [t EXCEPT !.title = IF title # None THEN title ELSE @,
                    !.description = IF description # None THEN description ELSE @,
                    !.status = IF status # None THEN status ELSE @,
                    !.deadline = IF dl # NoDate THEN dl ELSE @]]

Sql_task_update(S, tid, title, description, status, dl) ==
    IF tid \notin DOMAIN S.tasks THEN S
    ELSE LET t == S.tasks[tid]
         IN [S EXCEPT !.tasks[tid] =
               [t EXCEPT !.title = IF title # None THEN title ELSE @,
                         !.description = IF description # None THEN description ELSE @,
                         !.status = IF status # None THEN status ELSE @,
                         !.deadline = IF dl # NoDate THEN dl ELSE @]]

\* an update that writes all four fields, absent ones included
task_update_replace(S, b, tid, title, description, status, dl) ==
    IF tid \notin DOMAIN S.tasks THEN S
    ELSE [S EXCEPT !.tasks[tid] =
            [@ EXCEPT !.title = title, !.description = description,
                      !.status = status, !.deadline = dl]]

task_update(S, b, tid, title, description, status, dl) ==
    IF b = "mem" THEN Mem_task_update(S, tid, title, description, status, dl)
    ELSE Sql_task_update(S, tid, title, description, status, dl)

\* create_task without the test that the project exists
create_task_any_project(S, b, project_id, title, description, status, deadline, now) ==
    IF task_count(S) >= MAX_NUMBER_OF_TASK THEN Ret(S, "TaskLimitReached", NoId)
    ELSE LET id == S.next_tid
             t == [project_id |-> project_id, title |-> strip(title),
                   description |-> strip(description), status |-> TODO,
                   deadline |-> NoDate, created_at |-> now, closed_at |-> NoDate]
         IN Ret(task_add([S EXCEPT !.next_tid = id + 1], b, id, t), "ok", id)

\* create_task with the limit test before the project test
create_task_limit_first(S, b, project_id, title, description, status, deadline, now) ==
    IF task_count(S) >= MAX_NUMBER_OF_TASK THEN Ret(S, "TaskLimitReached", NoId)
    ELSE IF project_get_by_id(S, project_id) = NoId THEN Ret(S, "ProjectNotFound", NoId)
    ELSE IF word_count(title) > TASK_TITLE_MAX_WORDS THEN Ret(S, "ValidationError", NoId)
    ELSE IF word_count(description) > TASK_DESC_MAX_WORDS THEN Ret(S, "ValidationError", NoId)
    ELSE LET st == norm_status(status, TODO)
             dl == _parse_deadline(deadline)
             id == S.next_tid
             t == [project_id |-> project_id, title |-> strip(title),
                   description |-> strip(description), status |-> st,
                   deadline |-> dl.d, created_at |-> now, closed_at |-> NoDate]
         IN IF st \notin TASK_STATUSES THEN Ret(S, "ValidationError", NoId)
            ELSE IF ~dl.ok THEN Ret(S, "ValidationError", NoId)
            ELSE Ret(task_add([S EXCEPT !.next_tid = id + 1], b, id, t), "ok", id)

\* create_task that counts the tasks of the project only in the limit test
create_task_project_limit(S, b, project_id, title, description, status, deadline, now) ==
    IF project_get_by_id(S, project_id) = NoId THEN Ret(S, "ProjectNotFound", NoId)
    ELSE IF Cardinality({t \in DOMAIN S.tasks : S.tasks[t].project_id = project_id})
               >= MAX_NUMBER_OF_TASK
         THEN Ret(S, "TaskLimitReached", NoId)
    ELSE LET st == norm_status(status, TODO)
             dl == _parse_deadline(deadline)
             id == S.next_tid
             t == [project_id |-> project_id, title |-> strip(title),
                   description |-> strip(description), status |-> st,
                   deadline |-> dl.d, created_at |-> now, closed_at |-> NoDate]
         IN IF word_count(title) > TASK_TITLE_MAX_WORDS THEN Ret(S, "ValidationError", NoId)
            ELSE IF word_count(description) > TASK_DESC_MAX_WORDS
                 THEN Ret(S, "ValidationError", NoId)
            ELSE IF st \notin TASK_STATUSES THEN Ret(S, "ValidationError", NoId)
            ELSE IF ~dl.ok THEN Ret(S, "ValidationError", NoId)
            ELSE Ret(task_add([S EXCEPT !.next_tid = id + 1], b, id, t), "ok", id)

create_task(S, b, project_id, title, description, status, deadline, now) ==
    IF project_get_by_id(S, project_id) = NoId THEN Ret(S, "ProjectNotFound", NoId)
    ELSE IF task_count(S) >= MAX_NUMBER_OF_TASK THEN Ret(S, "TaskLimitReached", NoId)
    ELSE IF word_count(title) > TASK_TITLE_MAX_WORDS THEN Ret(S, "ValidationError", NoId)
    ELSE IF word_count(description) > TASK_DESC_MAX_WORDS THEN Ret(S, "ValidationError", NoId)
    ELSE LET st == norm_status(status, TODO)
             dl == _parse_deadline(deadline)
             id == S.next_tid
             t == [project_id |-> project_id, title |-> strip(title),
                   description |-> strip(description), status |-> st,
                   deadline |-> dl.d, created_at |-> now, closed_at |-> NoDate]
         IN IF st \notin TASK_STATUSES THEN Ret(S, "ValidationError", NoId)
            ELSE IF ~dl.ok THEN Ret(S, "ValidationError", NoId)
            ELSE Ret(task_add([S EXCEPT !.next_tid = id + 1], b, id, t), "ok", id)

\* the raise statement create_task stops at, named by the subject of
\* its message: "project", "limit", "title", "description", "status",
\* "deadline", or "none" when the task is stored
create_task_raise(S, project_id, title, description, status, deadline) ==
    IF project_get_by_id(S, project_id) = NoId THEN "project"
    ELSE IF task_count(S) >= MAX_NUMBER_OF_TASK THEN "limit"
    ELSE IF word_count(title) > TASK_TITLE_MAX_WORDS THEN "title"
    ELSE IF word_count(description) > TASK_DESC_MAX_WORDS THEN "description"
    ELSE IF norm_status(status, TODO) \notin TASK_STATUSES THEN "status"
    ELSE IF ~_parse_deadline(deadline).ok THEN "deadline"
    ELSE "none"

\* set_task_status without the membership test
set_task_status_unchecked(S, b, task_id, status) ==
    IF task_get_by_id(S, task_id) = NoId THEN Ret(S, "TaskNotFound", NoId)
    ELSE Ret(task_update(S, b, task_id, None, None, norm_status(status, <<>>), NoDate),
             "ok", task_id)

\* set_task_status that clears closed_at when the new status is not done
set_task_status_reopen(S, b, task_id, status) ==
    IF task_get_by_id(S, task_id) = NoId THEN Ret(S, "TaskNotFound", NoId)
    ELSE LET st == norm_status(status, <<>>)
             S1 == task_update(S, b, task_id, None, None, st, NoDate)
         IN IF st \notin TASK_STATUSES THEN Ret(S, "ValidationError", NoId)
            ELSE IF st = DONE THEN Ret(S1, "ok", task_id)
            ELSE Ret([S1 EXCEPT !.tasks[task_id].closed_at = NoDate], "ok", task_id)

set_task_status(S, b, task_id, status) ==
    IF task_get_by_id(S, task_id) = NoId THEN Ret(S, "TaskNotFound", NoId)
    ELSE LET st == norm_status(status, <<>>)
         IN IF st \notin TASK_STATUSES THEN Ret(S, "ValidationError", NoId)
            ELSE Ret(task_update(S, b, task_id, None, None, st, NoDate), "ok", task_id)

\* update_task that writes the title and description before it validates the
\* status
update_task_early_write(S, b, task_id, title, description, status, deadline) ==
    IF task_get_by_id(S, task_id) = NoId THEN Ret(S, "TaskNotFound", NoId)
    ELSE LET S1 == task_update(S, b, task_id, title, description, None, NoDate)
             st == IF status # None THEN lower(strip(status)) ELSE None
             dl == IF deadline.kind # "none" THEN _parse_deadline(deadline)
                   ELSE [ok |-> TRUE, d |-> NoDate]
         IN IF status # None /\ st \notin TASK_STATUSES THEN Ret(S1, "ValidationError", NoId)
            ELSE IF ~dl.ok THEN Ret(S1, "ValidationError", NoId)
            ELSE Ret(task_update(S1, b, task_id, None, None, st, dl.d), "ok", task_id)

\* update_task that takes a supplied deadline without a date as an order to
\* clear the stored one
update_task_clears(S, b, task_id, title, description, status, deadline) ==
    IF task_get_by_id(S, task_id) = NoId THEN Ret(S, "TaskNotFound", NoId)
    ELSE IF title = None /\ description = None /\ status = None /\ deadline.kind = "none"
         THEN Ret(S, "ValidationError", NoId)
    ELSE LET st == IF status # None THEN lower(strip(status)) ELSE None
             dl == IF deadline.kind # "none" THEN _parse_deadline(deadline)
                   ELSE [ok |-> TRUE, d |-> NoDate]
             S1 == task_update(S, b, task_id, title, description, st, dl.d)
         IN IF status # None /\ st \notin TASK_STATUSES THEN Ret(S, "ValidationError", NoId)
            ELSE IF ~dl.ok THEN Ret(S, "ValidationError", NoId)
            ELSE IF deadline.kind # "none" /\ dl.d = NoDate
                 THEN Ret([S1 EXCEPT !.tasks[task_id].deadline = NoDate], "ok", task_id)
            ELSE Ret(S1, "ok", task_id)

update_task(S, b, task_id, title, description, status, deadline) ==
    IF task_get_by_id(S, task_id) = NoId THEN Ret(S, "TaskNotFound", NoId)
    ELSE IF title = None /\ description = None /\ status = None /\ deadline.kind = "none"
         THEN Ret(S, "ValidationError", NoId)
    ELSE IF title # None /\ word_count(title) > TASK_TITLE_MAX_WORDS
         THEN Ret(S, "ValidationError", NoId)
    ELSE IF description # None /\ word_count(description) > TASK_DESC_MAX_WORDS
         THEN Ret(S, "ValidationError", NoId)
    ELSE LET st == IF status # None THEN lower(strip(status)) ELSE None
             dl == IF deadline.kind # "none" THEN _parse_deadline(deadline)
                   ELSE [ok |-> TRUE, d |-> NoDate]
         IN IF status # None /\ st \notin TASK_STATUSES THEN Ret(S, "ValidationError", NoId)
            ELSE IF ~dl.ok THEN Ret(S, "ValidationError", NoId)
            ELSE Ret(task_update(S, b, task_id, title, description, st, dl.d), "ok", task_id)

\* delete_task without the ownership test
delete_task_any_project(S, b, project_id, task_id) ==
    IF task_get_by_id(S, task_id) = NoId THEN Ret(S, "TaskNotFound", NoId)
    ELSE Ret(task_delete(S, b, task_id), "ok", NoId)

delete_task(S, b, project_id, task_id) ==
    IF task_get_by_id(S, task_id) = NoId THEN Ret(S, "TaskNotFound", NoId)
    ELSE IF S.tasks[task_id].project_id # project_id THEN Ret(S, "ValidationError", NoId)
    ELSE Ret(task_delete(S, b, task_id), "ok", NoId)

get_task_for_project(S, project_id, task_id) ==
    IF task_get_by_id(S, task_id) = NoId THEN Ret(S, "TaskNotFound", NoId)
    ELSE IF S.tasks[task_id].project_id # project_id THEN Ret(S, "ValidationError", NoId)
    ELSE Ret(S, "ok", task_id)

\* the orderings of a finite set of ids, each id once
Orderings(ids) ==
    {s \in [1..Cardinality(ids) -> ids] :
        \A i \in DOMAIN s, j \in DOMAIN s : i # j => s[i] # s[j]}

\* TaskRepository.all_for_project: the ids of the project's index entry in
\* ascending order, none when the project has no entry
Mem_all_for_project(S, project_id) ==
    LET ids == IF project_id \in DOMAIN S.by_project THEN S.by_project[project_id] ELSE {}
    IN {s \in Orderings(ids) : \A i \in DOMAIN s, j \in DOMAIN s : i < j => s[i] < s[j]}

\* SqlAlchemyTaskRepository.all_for_project: ORDER BY created_at, rows of
\* equal created_at in any order
Sql_all_for_project(S, project_id) ==
    LET ids == {t \in DOMAIN S.tasks : S.tasks[t].project_id = project_id}
    IN {s \in Orderings(ids) :
          \A i \in DOMAIN s, j \in DOMAIN s :
             i < j => S.tasks[s[i]].created_at <= S.tasks[s[j]].created_at}

\* sorted(..., key = created_at) is stable: rows of equal created_at keep the
\* order of the sequence s
sorted_by_created_at(S, s) ==
    CHOOSE r \in Orderings({s[i] : i \in DOMAIN s}) :
        \A i \in DOMAIN r, j \in DOMAIN r :
           i < j => \/ S.tasks[r[i]].created_at < S.tasks[r[j]].created_at
                    \/ /\ S.tasks[r[i]].created_at = S.tasks[r[j]].created_at
                       /\ \E k \in DOMAIN s, l \in DOMAIN s : k < l /\ s[k] = r[i] /\ s[l] = r[j]

\* list_tasks_for_project that lists the tasks of every project
list_tasks_all(S, b, project_id) ==
    IF project_get_by_id(S, project_id) = NoId THEN [res |-> "ProjectNotFound", out |-> {}]
    ELSE [res |-> "ok", out |-> Orderings(DOMAIN S.tasks)]

\* out: the sequences of task ids the call may return
list_tasks_for_project(S, b, project_id) ==
    IF project_get_by_id(S, project_id) = NoId THEN [res |-> "ProjectNotFound", out |-> {}]
    ELSE [res |-> "ok",
          out |-> {sorted_by_created_at(S, s) :
                     s \in IF b = "mem" THEN Mem_all_for_project(S, project_id)
                           ELSE Sql_all_for_project(S, project_id)}]

-----------------------------------------------------------------------------
(* commands/autoclose_overdue.py *)

\* today_start_utc: midnight of the day of the clock reading
today_start(now) == (now \div TicksPerDay) * TicksPerDay

\* the SELECT with <= in place of <
overdue_tasks_le(S, now) ==
    {t \in DOMAIN S.tasks :
        /\ S.tasks[t].deadline # NoDate
        /\ S.tasks[t].deadline <= today_start(now)
        /\ S.tasks[t].status # DONE}

\* the SELECT without the status test
overdue_tasks_any_status(S, now) ==
    {t \in DOMAIN S.tasks :
        /\ S.tasks[t].deadline # NoDate
        /\ S.tasks[t].deadline < today_start(now)}

\* the rows the SELECT of main() returns
overdue_tasks(S, now) ==
    {t \in DOMAIN S.tasks :
        /\ S.tasks[t].deadline # NoDate
        /\ S.tasks[t].deadline < today_start(now)
        /\ S.tasks[t].status # DONE}

\* one run of main(): the selected rows get status done and closed_at = now
autoclose_overdue(S, now) ==
    LET sel == overdue_tasks(S, now)
    IN [S |-> [S EXCEPT !.tasks = [t \in DOMAIN S.tasks |->
                   IF t \in sel
                   THEN [S.tasks[t] EXCEPT !.status = DONE, !.closed_at = now]
                   ELSE S.tasks[t]]],
        updated_count |-> Cardinality(sel)]

-----------------------------------------------------------------------------
(* db/session.py session_scope and api/v1 get_db: a session and its unit  *)
(* of work.  The database runs READ COMMITTED: a statement reads what is   *)
(* committed, an UPDATE or DELETE locks its row until the transaction      *)
(* ends, and what a session has flushed is visible to others only after    *)
(* its commit.                                                             *)

\* "J": the session of session_scope() in autoclose_overdue.main,
\* "U": the session of get_db() under one API request
Sessions == {"J", "U"}

NoOp == [kind |-> "none", id |-> NoId, status |-> None, deadline |-> DlNone, now |-> NoDate]

\* pc: where the scope stands; trace: the calls made so far; exc: what was
\* raised; view: the rows as read; pend: the rows as the body left them in
\* the session; todo, ptodo: task and project rows changed but not flushed;
\* wr, wp: statements flushed and not committed; flushed: every task row
\* a statement was flushed for
IdleSession ==
    [pc |-> "idle", trace |-> <<>>, exc |-> "none", op |-> NoOp,
     view |-> EmptyStore, pend |-> EmptyStore, todo |-> {}, ptodo |-> {},
     wr |-> EmptyMap, wp |-> {}, flushed |-> {}]

\* the body of the scope, run on the rows the session has read
RunOp(op, S) ==
    CASE op.kind = "autoclose" -> Ret(autoclose_overdue(S, op.now).S, "ok", NoId)
      [] op.kind = "delete_project" -> delete_project(S, "db", op.id)
      [] op.kind = "set_task_status" -> set_task_status(S, "db", op.id, op.status)
      [] op.kind = "update_task" ->
            update_task(S, "db", op.id, None, None, op.status, op.deadline)
      [] op.kind = "patch_task" ->
            update_task(S, "db", op.id, None, None, op.status, op.deadline)
      [] OTHER -> Ret(S, "ok", NoId)

\* PATCH /projects/{project_id}/tasks/{task_id}
PatchOp(project_id, task_id, status, deadline) ==
    [kind |-> "patch_task", id |-> task_id, status |-> status, deadline |-> deadline,
     now |-> NoDate, project_id |-> project_id]

\* a handler whose ownership test never fires
owner_always_matches(op, S) == FALSE

\* update_task_for_project: the task that update_task returned is not of the
\* project of the URL
owner_mismatch(op, S) ==
    /\ op.kind = "patch_task"
    /\ S.tasks[op.id].project_id # op.project_id

\* an UPDATE that sets every column of the row
dirty_all(old, new) == new

\* the SET clause of the UPDATE the flush emits for a changed object: the
\* attributes whose value differs from the loaded one
dirty(old, new) == [c \in {k \in DOMAIN new : new[k] # old[k]} |-> new[c]]

\* the row after an UPDATE with the SET clause set
merge(row, set) == [c \in DOMAIN row |-> IF c \in DOMAIN set THEN set[c] ELSE row[c]]

\* the committed rows after the statements wr (tasks) and wp (projects);
\* the tasks of a deleted project go with it (ondelete="CASCADE")
apply_writes(S, wr, wp) ==
    LET keep == {t \in DOMAIN S.tasks :
                    /\ ~(t \in DOMAIN wr /\ wr[t].del)
                    /\ S.tasks[t].project_id \notin wp}
    IN [S EXCEPT !.tasks = [t \in keep |-> IF t \in DOMAIN wr
                                           THEN merge(S.tasks[t], wr[t].set)
                                           ELSE S.tasks[t]],
                 !.projects = [p \in (DOMAIN S.projects) \ wp |-> S.projects[p]]]

\* a transaction end that publishes the flushed statements whatever the end
end_transaction_autocommit(S, wr, wp, commit) == apply_writes(S, wr, wp)

\* session.commit() publishes the flushed statements; session.rollback()
\* and session.close() drop them
end_transaction(S, wr, wp, commit) ==
    IF commit THEN apply_writes(S, wr, wp) ELSE S

\* a handler that goes to the finally clause whatever was raised
on_raise_no_rollback(kind) == "finally"

\* "except Exception:" takes an Exception; any other BaseException
\* (KeyboardInterrupt, SystemExit, GeneratorExit) passes to "finally:"
on_raise(kind) == IF kind = "Exception" THEN "except" ELSE "finally"

-----------------------------------------------------------------------------
(* Inputs *)

nA == <<"A">>
na == <<"a">>
na_sp == <<"a", " ">>
nb == <<"b">>
dx == <<"x">>
tT == <<"t">>

ProjNames == {nA, na, na_sp, nb, <<>>}
ProjDescs == {<<>>, dx}

\* the clock starts on 2025-12-31
ClockStart == DateOf(2025, 12, 31)
Ticks == ClockStart .. ClockStart + MaxClock

s_Done == <<" ", "D", "o", "n", "e">>
s_bad == <<"x">>
d_1230 == <<"2","0","2","5","-","1","2","-","3","0">>
d_1231 == <<"2","0","2","5","-","1","2","-","3","1">>
d_bad == <<"3","1","-","1","2","-","2","0","2","5">>

StatusIn == {None, TODO, DOING, s_Done, s_bad}
DeadlineIn == {DlNone, DlStr(<<>>), DlStr(d_1230), DlStr(d_1231), DlStr(d_bad)}

-----------------------------------------------------------------------------
(* One action per service call.  A call on the "db" backend is one request: *)
(* its unit of work commits when the service returns and is rolled back     *)
(* when it raises, and a service call that raises has written nothing.      *)

Apply(S) ==
    /\ projects' = S.projects
    /\ by_name' = S.by_name
    /\ tasks' = S.tasks
    /\ by_project' = S.by_project
    /\ next_pid' = S.next_pid
    /\ next_tid' = S.next_tid

\* op: the call, res: "ok" or the error it raised; for the overdue job n is
\* the reported count and ref its start-of-day reference point
Last(op, res, n, ref) == [op |-> op, res |-> res, n |-> n, ref |-> ref]

Pids == 1..MaxPid
Tids == 1..MaxTid

CreateProject(Names, Descs) ==
    \E n \in Names, d \in Descs :
        LET r == create_project(Store, backend, n, d, clock)
        IN /\ (r.res = "ok" => next_pid <= MaxPid)
           /\ Apply(r.S)
           /\ last' = Last("create_project", r.res, 0, NoDate)
           /\ UNCHANGED <<backend, clock, sess, db0>>

UpdateProject(Names, Descs) ==
    \E pid \in Pids, n \in Names \cup {None}, d \in Descs \cup {None} :
        LET r == update_project(Store, backend, pid, n, d)
        IN /\ Apply(r.S)
           /\ last' = Last("update_project", r.res, 0, NoDate)
           /\ UNCHANGED <<backend, clock, sess, db0>>

DeleteProject ==
    \E pid \in Pids :
        LET r == delete_project(Store, backend, pid)
        IN /\ Apply(r.S)
           /\ last' = Last("delete_project", r.res, 0, NoDate)
           /\ UNCHANGED <<backend, clock, sess, db0>>

CreateTask(PidsIn, Titles, Descs, Statuses, Deadlines) ==
    \E pid \in PidsIn, ti \in Titles, d \in Descs, st \in Statuses, dl \in Deadlines :
        LET r == create_task(Store, backend, pid, ti, d, st, dl, clock)
        IN /\ (r.res = "ok" => next_tid <= MaxTid)
           /\ Apply(r.S)
           /\ last' = Last("create_task", r.res, 0, NoDate)
           /\ UNCHANGED <<backend, clock, sess, db0>>

SetTaskStatus(Statuses) ==
    \E tid \in Tids, st \in Statuses :
        LET r == set_task_status(Store, backend, tid, st)
        IN /\ Apply(r.S)
           /\ last' = Last("set_task_status", r.res, 0, NoDate)
           /\ UNCHANGED <<backend, clock, sess, db0>>

UpdateTask(Titles, Descs, Statuses, Deadlines) ==
    \E tid \in Tids, ti \in Titles, d \in Descs, st \in Statuses, dl \in Deadlines :
        LET r == update_task(Store, backend, tid, ti, d, st, dl)
        IN /\ Apply(r.S)
           /\ last' = Last("update_task", r.res, 0, NoDate)
           /\ UNCHANGED <<backend, clock, sess, db0>>

DeleteTask(PidsIn) ==
    \E pid \in PidsIn, tid \in Tids :
        LET r == delete_task(Store, backend, pid, tid)
        IN /\ Apply(r.S)
           /\ last' = Last("delete_task", r.res, 0, NoDate)
           /\ UNCHANGED <<backend, clock, sess, db0>>

\* one run of commands/autoclose_overdue.py main() in its session_scope
AutoClose ==
    /\ backend = "db"
    /\ LET r == autoclose_overdue(Store, clock)
       IN /\ Apply(r.S)
          /\ last' = Last("autoclose", "ok", r.updated_count, today_start(clock))
    /\ UNCHANGED <<backend, clock, sess, db0>>

Tick ==
    /\ clock < ClockStart + MaxClock
    /\ clock' = clock + 1
    /\ UNCHANGED <<backend, projects, by_name, tasks, by_project, next_pid, next_tid, last, sess, db0>>

-----------------------------------------------------------------------------
(* SpecProj: the project operations on either backend, from the empty store *)

InitWith(S) ==
    /\ projects = S.projects
    /\ by_name = S.by_name
    /\ tasks = S.tasks
    /\ by_project = S.by_project
    /\ next_pid = S.next_pid
    /\ next_tid = S.next_tid
    /\ clock = ClockStart
    /\ last = Last("init", "ok", 0, NoDate)
    /\ sess = [x \in Sessions |-> IdleSession]
    /\ db0 = S

InitProj ==
    /\ backend \in {"mem", "db"}
    /\ InitWith(EmptyStore)

NextProj ==
    \/ CreateProject(ProjNames, {<<>>})
    \/ UpdateProject(ProjNames, {dx})
    \/ DeleteProject

SpecProj == InitProj /\ [][NextProj]_svars

-----------------------------------------------------------------------------
(* The store after create_project("A") and create_project("b") at          *)
(* ClockStart: projects 1 and 2                                            *)

TwoProjects(b) ==
    create_project(create_project(EmptyStore, b, nA, <<>>, ClockStart).S,
                   b, nb, <<>>, ClockStart).S

(* SpecCascade: project deletion with tasks present, on either backend *)

InitCascade ==
    /\ backend \in {"mem", "db"}
    /\ InitWith(TwoProjects(backend))

NextCascade ==
    \/ CreateTask({1, 2}, {tT}, {<<>>}, {None}, {DlNone})
    \/ DeleteTask({1, 2})
    \/ DeleteProject
    \/ CreateProject({nA, na}, {<<>>})

SpecCascade == InitCascade /\ [][NextCascade]_svars

-----------------------------------------------------------------------------
(* SpecTask: the task operations and the overdue job on either backend,   *)
(* the clock standing at ClockStart                                        *)

InitTask ==
    /\ backend \in {"mem", "db"}
    /\ InitWith(TwoProjects(backend))

NextTask ==
    \/ CreateTask({1}, {tT}, {<<>>}, {None, s_Done, s_bad},
                  {DlNone, DlStr(d_1230), DlStr(d_bad)})
    \/ SetTaskStatus({TODO, DOING, s_Done, s_bad, <<>>})
    \/ UpdateTask({None}, {None}, {None, DOING, s_bad}, {DlNone, DlStr(d_bad)})
    \/ DeleteTask({1})
    \/ AutoClose

SpecTask == InitTask /\ [][NextTask]_svars

-----------------------------------------------------------------------------
(* SpecJob: runs of the overdue job as the clock advances, on the "db"     *)
(* backend (the job works on the database only).  It starts from the       *)
(* stores that hold up to two tasks created at ClockStart.                 *)

JobStatusIn == {None, DOING, s_Done}
JobDeadlineIn == {DlNone, DlStr(d_1230), DlStr(d_1231), DlDate(ClockStart - 1)}

OneMoreTask(Ss) ==
    {create_task(S, "db", 1, tT, <<>>, st, dl, ClockStart).S :
        S \in Ss, st \in JobStatusIn, dl \in JobDeadlineIn}

JobStores ==
    LET S0 == {TwoProjects("db")}
        S1 == OneMoreTask(S0)
    IN S0 \cup S1 \cup OneMoreTask(S1)

InitJob ==
    /\ backend = "db"
    /\ \E S \in JobStores : InitWith(S)

NextJob ==
    \/ SetTaskStatus({DOING})
    \/ AutoClose
    \/ Tick

SpecJob == InitJob /\ [][NextJob]_svars

-----------------------------------------------------------------------------
(* SpecTx: one run of the overdue job and one API request, each in its    *)
(* own session, their statements interleaved, a failure possible at every *)
(* step.  The clock stands at ClockStart.                                  *)

SetDb(S) ==
    /\ projects' = S.projects
    /\ tasks' = S.tasks
    /\ UNCHANGED <<backend, by_name, by_project, next_pid, next_tid, clock, last, db0>>

\* the row t is locked by a session other than x
Locked(x, t) == \E y \in Sessions \ {x} : t \in DOMAIN sess[y].wr

\* what the body or the commit raised reaches the handler of the scope
Raise(x, kind) ==
    sess' = [sess EXCEPT ![x].exc = kind, ![x].pc = on_raise(kind)]

\* session = SessionLocal(); try: yield session
TxAcquire(x, op) ==
    /\ sess[x].pc = "idle"
    /\ sess' = [sess EXCEPT ![x] = [IdleSession EXCEPT !.pc = "read", !.op = op,
                                        !.trace = <<"acquire", "body">>]]
    /\ UNCHANGED <<backend, projects, by_name, tasks, by_project, next_pid, next_tid,
                   clock, last, db0>>

\* autoclose_overdue.main: with session_scope() as session
TxAcquireJob ==
    TxAcquire("J", [NoOp EXCEPT !.kind = "autoclose", !.now = clock])

\* an API request: Depends(get_db)
TxAcquireUser(Ops) ==
    \E op \in Ops : TxAcquire("U", op)

\* the body reads its rows and changes the loaded objects; a service call
\* that raises is an Exception in the body
TxRead ==
    \E x \in Sessions :
        /\ sess[x].pc = "read"
        /\ LET r == RunOp(sess[x].op, Store)
           IN IF r.res # "ok" THEN Raise(x, "Exception")
              ELSE sess' = [sess EXCEPT
                      ![x].pc = "flush",
                      ![x].view = Store,
                      ![x].pend = r.S,
                      ![x].todo = {t \in DOMAIN tasks :
                                      t \notin DOMAIN r.S.tasks \/ r.S.tasks[t] # tasks[t]},
                      ![x].ptodo = (DOMAIN projects) \ DOMAIN r.S.projects]
        /\ UNCHANGED <<backend, projects, by_name, tasks, by_project, next_pid, next_tid,
                       clock, last, db0>>

\* flush: one UPDATE or DELETE of a task row; it waits while another session
\* holds the row, and a row that is gone raises StaleDataError
TxFlush ==
    \E x \in Sessions :
        /\ sess[x].pc = "flush"
        /\ \E t \in sess[x].todo :
              /\ ~Locked(x, t)
              /\ IF t \notin DOMAIN tasks THEN Raise(x, "Exception")
                 ELSE sess' = [sess EXCEPT
                         ![x].todo = @ \ {t},
                         ![x].flushed = @ \cup {t},
                         ![x].wr = Put(@, t,
                            IF t \notin DOMAIN sess[x].pend.tasks
                            THEN [del |-> TRUE, set |-> EmptyMap]
                            ELSE [del |-> FALSE,
                                  set |-> dirty(sess[x].view.tasks[t],
                                                sess[x].pend.tasks[t])])]
        /\ UNCHANGED <<backend, projects, by_name, tasks, by_project, next_pid, next_tid,
                       clock, last, db0>>

\* flush: the DELETE of the project row, after those of its tasks
TxFlushProject ==
    \E x \in Sessions :
        /\ sess[x].pc = "flush"
        /\ sess[x].todo = {}
        /\ \E p \in sess[x].ptodo :
              sess' = [sess EXCEPT ![x].ptodo = @ \ {p}, ![x].wp = @ \cup {p}]
        /\ UNCHANGED <<backend, projects, by_name, tasks, by_project, next_pid, next_tid,
                       clock, last, db0>>

\* session.commit() succeeds
TxCommit ==
    \E x \in Sessions :
        /\ sess[x].pc = "flush"
        /\ sess[x].todo = {} /\ sess[x].ptodo = {}
        /\ ~owner_mismatch(sess[x].op, sess[x].pend)
        /\ SetDb(end_transaction(Store, sess[x].wr, sess[x].wp, TRUE))
        /\ sess' = [sess EXCEPT ![x].pc = "finally", ![x].wr = EmptyMap, ![x].wp = {},
                                ![x].trace = Append(@, "commit")]

\* update_task_for_project, after update_task has returned and flushed:
\* raise HTTPException(400), an Exception, into the scope of get_db
TxReject ==
    \E x \in Sessions :
        /\ sess[x].pc = "flush"
        /\ sess[x].todo = {} /\ sess[x].ptodo = {}
        /\ owner_mismatch(sess[x].op, sess[x].pend)
        /\ sess' = [sess EXCEPT ![x].exc = "Exception", ![x].pc = on_raise("Exception"),
                                ![x].trace = Append(@, "HTTP 400")]
        /\ UNCHANGED <<backend, projects, by_name, tasks, by_project, next_pid, next_tid,
                       clock, last, db0>>

\* the body, a flush or the commit raises
TxFail ==
    \E x \in Sessions, kind \in {"Exception", "BaseException"} :
        /\ sess[x].pc \in {"read", "flush"}
        /\ Raise(x, kind)
        /\ UNCHANGED <<backend, projects, by_name, tasks, by_project, next_pid, next_tid,
                       clock, last, db0>>

\* except Exception: session.rollback(); raise
TxRollback ==
    \E x \in Sessions :
        /\ sess[x].pc = "except"
        /\ SetDb(end_transaction(Store, sess[x].wr, sess[x].wp, FALSE))
        /\ sess' = [sess EXCEPT ![x].pc = "finally", ![x].wr = EmptyMap, ![x].wp = {},
                                ![x].trace = Append(@, "rollback")]

\* finally: session.close()
TxClose ==
    \E x \in Sessions :
        /\ sess[x].pc = "finally"
        /\ SetDb(end_transaction(Store, sess[x].wr, sess[x].wp, FALSE))
        /\ sess' = [sess EXCEPT ![x].pc = "closed", ![x].wr = EmptyMap, ![x].wp = {},
                                ![x].trace = Append(@, "close")]

TxStatusIn == {None, s_Done}
TxDeadlineIn == {DlStr(d_1230), DlStr(d_1231)}

\* two projects, one or two tasks in project 1
TxStores ==
    LET S1 == {create_task(TwoProjects("db"), "db", 1, tT, <<>>, st, dl, ClockStart).S :
                  st \in TxStatusIn, dl \in TxDeadlineIn}
        S2 == {create_task(S, "db", 1, tT, <<>>, None, DlStr(d_1230), ClockStart).S :
                  S \in S1}
    IN S1 \cup S2

\* the requests: DELETE project, set_task_status, PATCH task
UserOps ==
    {[NoOp EXCEPT !.kind = "delete_project", !.id = 1],
     [NoOp EXCEPT !.kind = "delete_project", !.id = 3],
     [NoOp EXCEPT !.kind = "set_task_status", !.id = 1, !.status = DOING],
     [NoOp EXCEPT !.kind = "set_task_status", !.id = 1, !.status = s_bad],
     [NoOp EXCEPT !.kind = "update_task", !.id = 1, !.deadline = DlDate(ClockStart)],
     [NoOp EXCEPT !.kind = "update_task", !.id = 1, !.status = DOING,
                  !.deadline = DlDate(ClockStart)]}

InitTx ==
    /\ backend = "db"
    /\ \E S \in TxStores : InitWith(S)

NextTx ==
    \/ TxAcquireJob
    \/ TxAcquireUser(UserOps)
    \/ TxRead
    \/ TxFlush
    \/ TxFlushProject
    \/ TxCommit
    \/ TxFail
    \/ TxRollback
    \/ TxClose

SpecTx == InitTx /\ [][NextTx]_svars

-----------------------------------------------------------------------------
(* Claims *)

LiveP == DOMAIN projects
LiveT == DOMAIN tasks

\* some live project other than pid has a name equal to n ignoring case
Collides(n, pid) == \E q \in LiveP \ {pid} : SameNoCase(projects[q].name, n)

NoCaseUnique ==
    \A p \in LiveP, q \in LiveP : p # q => ~SameNoCase(projects[p].name, projects[q].name)

\* C1 as stated: over the in-memory repository no two live projects have names
\* equal ignoring case, and every create_project or rename whose name equals
\* ignoring case the name of another live project fails with
\* DuplicateProjectName and changes nothing.
C1_AsStated ==
    backend = "mem" =>
        /\ NoCaseUnique
        /\ \A n \in ProjNames, d \in ProjDescs :
              Collides(n, NoId) =>
                  LET r == create_project(Store, backend, n, d, clock)
                  IN r.res = "DuplicateProjectName" /\ r.S = Store
        /\ \A pid \in LiveP, n \in ProjNames, d \in ProjDescs \cup {None} :
              Collides(n, pid) =>
                  LET r == update_project(Store, backend, pid, n, d)
                  IN r.res = "DuplicateProjectName" /\ r.S = Store

\* C1 amended: over the in-memory repository no two live projects have names
\* equal ignoring case; a create_project whose name equals ignoring case the
\* name of a live project fails and changes nothing, with DuplicateProjectName
\* when the word counts are within the limits and the project count is below
\* the maximum (the earlier checks come first otherwise); a rename whose
\* trimmed name is not empty and equals ignoring case the name of another live
\* project fails with DuplicateProjectName and changes nothing.
C1_Unique ==
    backend = "mem" =>
        /\ NoCaseUnique
        /\ \A n \in ProjNames, d \in ProjDescs :
              Collides(n, NoId) =>
                  LET r == create_project(Store, backend, n, d, clock)
                  IN /\ r.S = Store
                     /\ r.res \in {"DuplicateProjectName", "ProjectLimitReached",
                                   "ValidationError"}
                     /\ (/\ word_count(n) <= NAME_MAX_WORDS
                         /\ word_count(d) <= DESC_MAX_WORDS
                         /\ Cardinality(LiveP) < MAX_NUMBER_OF_PROJECT)
                        => r.res = "DuplicateProjectName"
        /\ \A pid \in LiveP, n \in ProjNames, d \in ProjDescs \cup {None} :
              (strip(n) # <<>> /\ Collides(strip(n), pid)) =>
                  LET r == update_project(Store, backend, pid, n, d)
                  IN r.res = "DuplicateProjectName" /\ r.S = Store

\* a rename into a collision was just refused, two projects being live
C1_Witness ==
    /\ backend = "mem"
    /\ last.op = "update_project"
    /\ last.res = "DuplicateProjectName"
    /\ Cardinality(LiveP) = 2

\* C2: in both repositories get_by_name(n) returns a stored project whose name
\* equals n ignoring case whenever there is one, and None when there is none.
C2_GetByName ==
    \A n \in ProjNames :
        LET r == get_by_name(Store, backend, n)
        IN IF Collides(n, NoId)
           THEN r \in LiveP /\ SameNoCase(projects[r].name, n)
           ELSE r = NoId

C4_StatusDomain == \A t \in LiveT : tasks[t].status \in TASK_STATUSES

\* one task was closed by the overdue job, another was set to doing by a user
C4_Witness ==
    \E t \in LiveT, u \in LiveT :
        /\ tasks[t].status = DONE
        /\ tasks[t].closed_at # NoDate
        /\ tasks[u].status = DOING

InvalidStatus(s) == lower(strip(s)) \notin TASK_STATUSES

\* C5: on an existing task, set_task_status and update_task with a status
\* text that is none of todo, doing, done after strip() and lower() fail with
\* ValidationError and leave the task, and the whole store, unchanged.
C5_InvalidStatus ==
    \A t \in LiveT, s \in {s_bad, <<>>, <<" ">>, <<"d", "o", "n">>} :
        /\ InvalidStatus(s)
        /\ LET r == set_task_status(Store, backend, t, s)
           IN r.res = "ValidationError" /\ r.S = Store
        /\ \A ti \in {None, tT}, d \in {None, dx},
              dl \in {DlNone, DlStr(d_1231), DlStr(d_bad)} :
              LET r == update_task(Store, backend, t, ti, d, s, dl)
              IN r.res = "ValidationError" /\ r.S = Store

\* set_task_status on a live task was just refused
C5_Witness ==
    /\ last.op = "set_task_status"
    /\ last.res = "ValidationError"
    /\ LiveT # {}

\* a step of the overdue job: it alone sets last.op to "autoclose", and the
\* clock does not move while it runs
IsAutoCloseStep == last'.op = "autoclose" /\ clock' = clock

\* the start of the current day
DayStart == clock - (clock % TicksPerDay)

\* the tasks the job is to close: a deadline, before the start of the day,
\* status not done
DueSet ==
    {t \in LiveT : tasks[t].deadline # NoDate /\ tasks[t].deadline < DayStart
                   /\ tasks[t].status # DONE}

\* C6: one run of the overdue job changes exactly the tasks that have a
\* deadline strictly before the start of the current day and are not done:
\* each gets status done and closed_at = now; every other task keeps all its
\* fields, no task is created or deleted, the projects are untouched and the
\* reported count is the number of tasks changed.
C6_ExactlyOverdue ==
    [][IsAutoCloseStep =>
          /\ DOMAIN tasks' = LiveT
          /\ \A t \in LiveT :
                tasks'[t] = IF t \in DueSet
                            THEN [tasks[t] EXCEPT !.status = DONE, !.closed_at = clock]
                            ELSE tasks[t]
          /\ {t \in LiveT : tasks'[t] # tasks[t]} = DueSet
          /\ last'.n = Cardinality(DueSet)
          /\ projects' = projects]_svars

\* a run has just closed one task and left alone a task that is not done and
\* has a deadline, and a task already done
C6_Witness ==
    /\ last.op = "autoclose"
    /\ last.n = 1
    /\ \E t \in LiveT : tasks[t].status # DONE /\ tasks[t].deadline # NoDate
    /\ \E t \in LiveT : tasks[t].closed_at = clock

\* C7 as stated: of two runs of the overdue job with no other operation in
\* between, the second selects no task, reports 0 and changes no task.
C7_AsStated ==
    [][(last.op = "autoclose" /\ IsAutoCloseStep) =>
          (last'.n = 0 /\ tasks' = tasks)]_svars

\* C7 amended: of two runs of the overdue job with no other operation in
\* between and the same start-of-day reference point (no midnight passes
\* between them), the second selects no task, reports 0 and changes no task.
C7_SameDayIdempotent ==
    [][(last.op = "autoclose" /\ last.ref = DayStart /\ IsAutoCloseStep) =>
          (last'.n = 0 /\ tasks' = tasks)]_svars

\* the second of two runs on the same day has reported 0, the first having
\* closed a task
C7_Witness ==
    /\ last.op = "autoclose"
    /\ last.n = 0
    /\ last.ref = DayStart
    /\ \E t \in LiveT : tasks[t].closed_at # NoDate /\ date_of(tasks[t].closed_at) = DayStart

\* both transactions have committed and are closed, the request being a
\* set_task_status or an update_task
BothCommitted ==
    /\ \A x \in Sessions : sess[x].pc = "closed" /\ sess[x].exc = "none"
    /\ sess["U"].op.kind \in {"set_task_status", "update_task"}

\* the tasks after the job and then the request, and after the request and
\* then the job, each run alone from the store at the start
SerialJU == RunOp(sess["U"].op, RunOp(sess["J"].op, db0).S).S.tasks
SerialUJ == RunOp(sess["J"].op, RunOp(sess["U"].op, db0).S).S.tasks

\* every status is todo, doing or done
StatusesValid == \A t \in LiveT : tasks[t].status \in TASK_STATUSES

\* a closed_at other than the one at the start is the now of a committed job
\* run that selected the task
ClosedAtOnlyByJob ==
    \A t \in LiveT :
        tasks[t].closed_at # db0.tasks[t].closed_at =>
            /\ "commit" \in {sess["J"].trace[i] : i \in DOMAIN sess["J"].trace}
            /\ t \in overdue_tasks(sess["J"].view, sess["J"].op.now)
            /\ tasks[t].closed_at = sess["J"].op.now

\* the request supplies both a status and a deadline
StatusAndDeadline ==
    sess["U"].op.status # None /\ sess["U"].op.deadline.kind # "none"

\* C8 as stated: for any interleaving of one overdue-closing transaction with
\* one set_task_status or update_task transaction on the same task, every
\* committed status is todo, doing or done, closed_at is set only if the
\* overdue run wrote it, and the final state equals that of one of the two
\* serial orders.
C8_AsStated ==
    /\ StatusesValid
    /\ ClosedAtOnlyByJob
    /\ BothCommitted => tasks \in {SerialJU, SerialUJ}

\* C8 amended: for any such interleaving every committed status is todo,
\* doing or done and closed_at is set only if the overdue run wrote it; the
\* final state equals that of one of the two serial orders when the request
\* is a set_task_status or an update_task that does not supply both a status
\* and a deadline.
C8_NotCorrupted ==
    /\ StatusesValid
    /\ ClosedAtOnlyByJob
    /\ (BothCommitted /\ ~StatusAndDeadline) => tasks \in {SerialJU, SerialUJ}

\* the job selected task 1 before the request committed and committed after
\* it: task 1 carries the job's done and closed_at, and the final state is
\* the one of the order request, job and not of the order job, request
C8_Witness ==
    /\ BothCommitted
    /\ sess["U"].op.kind = "set_task_status"
    /\ 1 \in sess["J"].flushed /\ 1 \in sess["U"].flushed
    /\ sess["J"].view.tasks[1].status = TODO
    /\ tasks = SerialUJ /\ tasks # SerialJU

\* the tasks of the project of a DELETE project request, at the start
DelPid == sess["U"].op.id
DelTasks == {t \in DOMAIN db0.tasks : db0.tasks[t].project_id = DelPid}
AllPresent == DelPid \in LiveP /\ DelTasks \subseteq LiveT
AllGone == DelPid \notin LiveP /\ DelTasks \cap LiveT = {}

\* C9: when a failure occurs at any step of a project deletion, the whole
\* unit of work is rolled back: the committed state holds either the project
\* with all its tasks or neither, at every moment, and after a failure it
\* holds the project with all its tasks.
C9_DeleteAtomic ==
    (sess["U"].op.kind = "delete_project" /\ DelPid \in DOMAIN db0.projects) =>
        /\ AllPresent \/ AllGone
        /\ sess["U"].exc # "none" => AllPresent

\* the deletion failed after the DELETE of one of the two tasks of the
\* project was flushed; the scope has rolled back and closed
C9_Witness ==
    /\ sess["U"].op.kind = "delete_project"
    /\ sess["U"].pc = "closed"
    /\ sess["U"].exc = "Exception"
    /\ Cardinality(DelTasks) = 2
    /\ Cardinality(sess["U"].flushed) = 1
    /\ AllPresent

Calls(x) == {sess[x].trace[i] : i \in DOMAIN sess[x].trace}

\* C10 as stated: a closed scope has run acquire, body, then exactly one of
\* commit (the body raised nothing) or rollback with the failure re-raised
\* (the body or the commit raised), and close last.
C10_AsStated ==
    \A x \in Sessions :
        sess[x].pc = "closed" =>
            /\ SubSeq(sess[x].trace, 1, 2) = <<"acquire", "body">>
            /\ sess[x].trace[Len(sess[x].trace)] = "close"
            /\ ("commit" \in Calls(x)) # ("rollback" \in Calls(x))
            /\ ("commit" \in Calls(x)) = (sess[x].exc = "none")

\* C10 amended: a closed scope has run acquire, body, commit, close when
\* nothing was raised; acquire, body, rollback, close with the failure
\* re-raised when the body or the commit raised an Exception; and acquire,
\* body, close, with neither commit nor rollback, when what was raised is a
\* BaseException that is not an Exception.  No scope has both a commit that
\* succeeded and a rollback.
C10_ScopeDiscipline ==
    \A x \in Sessions :
        /\ ~({"commit", "rollback"} \subseteq Calls(x))
        /\ sess[x].pc = "closed" =>
              sess[x].trace =
                 CASE sess[x].exc = "none" -> <<"acquire", "body", "commit", "close">>
                   [] sess[x].exc = "Exception" -> <<"acquire", "body", "rollback", "close">>
                   [] OTHER -> <<"acquire", "body", "close">>

\* one scope has committed and closed, the other has rolled back and closed
C10_Witness ==
    /\ sess["J"].trace = <<"acquire", "body", "commit", "close">>
    /\ sess["U"].trace = <<"acquire", "body", "rollback", "close">>
    /\ sess["U"].flushed # {}

\* the database holding the projects and tasks of the in-memory store S: the
\* same rows and sequences, and no index dictionaries
DbImage(S) == [S EXCEPT !.by_name = EmptyMap, !.by_project = EmptyMap]

\* the two results are the same outcome and leave the same projects and tasks
SameOutcome(m, d) ==
    /\ m.res = d.res
    /\ m.id = d.id
    /\ m.S.projects = d.S.projects
    /\ m.S.tasks = d.S.tasks

\* C11: from the same projects and tasks, every ProjectService and
\* TaskService call gives over the in-memory repositories and over the
\* SQLAlchemy repositories the same outcome (result or error kind) and the
\* same resulting projects and tasks; by induction this is the equivalence of
\* the two backends on every sequence of calls.
C11_BackendsAgree ==
    backend = "mem" =>
        LET D == DbImage(Store)
        IN /\ \A n \in ProjNames, d \in ProjDescs :
                 SameOutcome(create_project(Store, "mem", n, d, clock),
                             create_project(D, "db", n, d, clock))
           /\ \A pid \in Pids, n \in ProjNames \cup {None}, d \in ProjDescs \cup {None} :
                 SameOutcome(update_project(Store, "mem", pid, n, d),
                             update_project(D, "db", pid, n, d))
           /\ \A pid \in Pids :
                 SameOutcome(delete_project(Store, "mem", pid),
                             delete_project(D, "db", pid))
           /\ \A pid \in Pids, st \in StatusIn, dl \in DeadlineIn :
                 SameOutcome(create_task(Store, "mem", pid, tT, <<>>, st, dl, clock),
                             create_task(D, "db", pid, tT, <<>>, st, dl, clock))

-----------------------------------------------------------------------------
(* SpecLimit: create_project with names and descriptions at and over the   *)
(* word limits, up to the project limit, on either backend                 *)

\* n words "a" with the separator sep between them
WordsSep(n, sep) == [i \in 1..(2 * n - 1) |-> IF i % 2 = 1 THEN "a" ELSE sep]

NameAtLimit == WordsSep(NAME_MAX_WORDS, " ")
NameOverLimit == WordsSep(NAME_MAX_WORDS + 1, " ")
NameOverLimitTabs == WordsSep(NAME_MAX_WORDS + 1, "\t")
DescAtLimit == WordsSep(DESC_MAX_WORDS, " ")
DescOverLimit == WordsSep(DESC_MAX_WORDS + 1, "\n")

InitLimit ==
    /\ backend \in {"mem", "db"}
    /\ InitWith(EmptyStore)

NextLimit ==
    \/ CreateProject({na, nA, nb, NameAtLimit, NameOverLimit},
                     {<<>>, DescAtLimit, DescOverLimit})
    \/ DeleteProject

SpecLimit == InitLimit /\ [][NextLimit]_svars

\* C12: create_project with a name of more than 30 words or a description of
\* more than 150 words fails with ValidationError and leaves the store
\* (projects, count, name index) as it was; a name of exactly 30 words with a
\* description of exactly 150 words is not refused with ValidationError.
C12_WordLimits ==
    /\ \A n \in {NameOverLimit, NameOverLimitTabs}, d \in {<<>>, DescAtLimit, DescOverLimit} :
          LET r == create_project(Store, backend, n, d, clock)
          IN r.res = "ValidationError" /\ r.S = Store
    /\ \A n \in {na, nb, NameAtLimit} :
          LET r == create_project(Store, backend, n, DescOverLimit, clock)
          IN r.res = "ValidationError" /\ r.S = Store
    /\ create_project(Store, backend, NameAtLimit, DescAtLimit, clock).res
          # "ValidationError"

\* a create_project over the word limit was just refused, a project with a
\* name of exactly 30 words and a description of exactly 150 being stored
C12_Witness ==
    /\ last.op = "create_project"
    /\ last.res = "ValidationError"
    /\ \E p \in LiveP : /\ projects[p].name = NameAtLimit
                        /\ projects[p].description = DescAtLimit

\* create_project succeeds and adds exactly one project
AddsOne(r) ==
    /\ r.res = "ok"
    /\ Cardinality(DOMAIN r.S.projects) = Cardinality(LiveP) + 1
    /\ project_count(r.S) = project_count(Store) + 1
    /\ \A p \in LiveP : r.S.projects[p] = projects[p]

\* C13 as stated: the number of live projects never exceeds
\* MAX_NUMBER_OF_PROJECT; every create_project when the count equals the
\* maximum fails with ProjectLimitReached and changes nothing; a
\* create_project of a valid, non-colliding name below the maximum succeeds
\* and increases the count by exactly one.
C13_AsStated ==
    /\ Cardinality(LiveP) <= MAX_NUMBER_OF_PROJECT
    /\ Cardinality(LiveP) = MAX_NUMBER_OF_PROJECT =>
          \A n \in {na, nb, NameAtLimit, NameOverLimit}, d \in {<<>>, DescOverLimit} :
              LET r == create_project(Store, backend, n, d, clock)
              IN r.res = "ProjectLimitReached" /\ r.S = Store
    /\ Cardinality(LiveP) < MAX_NUMBER_OF_PROJECT =>
          \A n \in {na, nb, NameAtLimit}, d \in {<<>>, DescAtLimit} :
              ~Collides(n, NoId) =>
                  AddsOne(create_project(Store, backend, n, d, clock))

\* C13 amended: the number of live projects never exceeds
\* MAX_NUMBER_OF_PROJECT; a create_project whose name and description are
\* within the word limits, when the count equals the maximum, fails with
\* ProjectLimitReached and changes nothing (over a word limit it fails with
\* ValidationError and changes nothing); a create_project of a valid,
\* non-colliding name below the maximum succeeds and increases the count by
\* exactly one.
C13_ProjectLimit ==
    /\ Cardinality(LiveP) <= MAX_NUMBER_OF_PROJECT
    /\ Cardinality(LiveP) = MAX_NUMBER_OF_PROJECT =>
          /\ \A n \in {na, nb, NameAtLimit}, d \in {<<>>, DescAtLimit} :
                LET r == create_project(Store, backend, n, d, clock)
                IN r.res = "ProjectLimitReached" /\ r.S = Store
          /\ \A n \in {na, NameOverLimit}, d \in {<<>>, DescOverLimit} :
                LET r == create_project(Store, backend, n, d, clock)
                IN r.S = Store /\ r.res \in {"ProjectLimitReached", "ValidationError"}
    /\ Cardinality(LiveP) < MAX_NUMBER_OF_PROJECT =>
          \A n \in {na, nb, NameAtLimit}, d \in {<<>>, DescAtLimit} :
              ~Collides(n, NoId) =>
                  AddsOne(create_project(Store, backend, n, d, clock))

\* a create_project at the maximum was just refused with ProjectLimitReached
C13_Witness ==
    /\ last.op = "create_project"
    /\ last.res = "ProjectLimitReached"
    /\ Cardinality(LiveP) = MAX_NUMBER_OF_PROJECT

\* C14: the number of live tasks over all projects never exceeds
\* MAX_NUMBER_OF_TASK; at the maximum create_task fails with TaskLimitReached
\* in every live project, whatever the other inputs, and changes nothing;
\* below the maximum (as after a delete_task or a cascade delete) a
\* create_task with valid input in a live project succeeds and adds one task.
C14_TaskLimit ==
    /\ Cardinality(LiveT) <= MAX_NUMBER_OF_TASK
    /\ task_count(Store) = Cardinality(LiveT)
    /\ Cardinality(LiveT) = MAX_NUMBER_OF_TASK =>
          \A pid \in LiveP, st \in StatusIn, dl \in DeadlineIn :
              LET r == create_task(Store, backend, pid, tT, <<>>, st, dl, clock)
              IN r.res = "TaskLimitReached" /\ r.S = Store
    /\ Cardinality(LiveT) < MAX_NUMBER_OF_TASK =>
          \A pid \in LiveP, st \in {None, TODO, s_Done},
             dl \in {DlNone, DlStr(d_1230), DlDate(ClockStart)} :
              LET r == create_task(Store, backend, pid, tT, <<>>, st, dl, clock)
              IN /\ r.res = "ok"
                 /\ Cardinality(DOMAIN r.S.tasks) = Cardinality(LiveT) + 1
                 /\ \A t \in LiveT : r.S.tasks[t] = tasks[t]

\* more tasks than the maximum have been created over time, a project has
\* been deleted, and a create_task has just succeeded again
C14_Witness ==
    /\ last.op = "create_task"
    /\ last.res = "ok"
    /\ next_tid > MAX_NUMBER_OF_TASK + 1
    /\ Cardinality(LiveP) = 1
    /\ next_pid = 3

\* C15: get_task_for_project and delete_task with (project id, task id):
\* no task of that id gives TaskNotFound; a task of another project gives
\* ValidationError and the task stays as it was; a task of that project is
\* returned by get_task_for_project and removed by delete_task, which leaves
\* every other task as it was.
C15_Ownership ==
    \A pid \in Pids, tid \in 1..(MaxTid + 1) :
        LET g == get_task_for_project(Store, pid, tid)
            r == delete_task(Store, backend, pid, tid)
        IN /\ g.S = Store
           /\ IF tid \notin LiveT
              THEN g.res = "TaskNotFound" /\ r.res = "TaskNotFound" /\ r.S = Store
              ELSE IF tasks[tid].project_id # pid
              THEN g.res = "ValidationError" /\ r.res = "ValidationError" /\ r.S = Store
              ELSE /\ g.res = "ok" /\ g.id = tid
                   /\ r.res = "ok"
                   /\ DOMAIN r.S.tasks = LiveT \ {tid}
                   /\ \A t \in LiveT \ {tid} : r.S.tasks[t] = tasks[t]
                   /\ r.S.projects = projects

\* a delete_task naming the wrong project was just refused, the task being
\* live in the other project
C15_Witness ==
    /\ last.op = "delete_task"
    /\ last.res = "ValidationError"
    /\ \E t \in LiveT : tasks[t].project_id = 2
    /\ \A t \in LiveT : tasks[t].project_id = 2

\* the error kind of each raise statement of create_task
ErrorKind(rule) ==
    CASE rule = "project" -> "ProjectNotFound"
      [] rule = "limit" -> "TaskLimitReached"
      [] rule = "none" -> "ok"
      [] OTHER -> "ValidationError"

TitleOverLimit == WordsSep(TASK_TITLE_MAX_WORDS + 1, " ")

\* the earliest rule violated, in the order project, limit, title,
\* description, status, deadline; the inputs are violating by construction
FirstViolated(noProject, atLimit, badTitle, badDesc, badStatus, badDeadline) ==
    IF noProject THEN "project"
    ELSE IF atLimit THEN "limit"
    ELSE IF badTitle THEN "title"
    ELSE IF badDesc THEN "description"
    ELSE IF badStatus THEN "status"
    ELSE IF badDeadline THEN "deadline"
    ELSE "none"

\* C16: create_task checks project existence, global task limit, title word
\* count, description word count, status, deadline in this order: with
\* several rules violated at once the error raised is that of the earliest
\* violated rule, and on any failure no task is stored.
C16_CreateTaskOrder ==
    \A pid \in Pids, ti \in {tT, TitleOverLimit}, d \in {<<>>, DescOverLimit},
       st \in {None, s_bad}, dl \in {DlNone, DlStr(d_bad)} :
        LET r == create_task(Store, backend, pid, ti, d, st, dl, clock)
            rule == FirstViolated(pid \notin LiveP,
                                  Cardinality(LiveT) >= MAX_NUMBER_OF_TASK,
                                  ti = TitleOverLimit, d = DescOverLimit,
                                  st = s_bad, dl = DlStr(d_bad))
        IN /\ create_task_raise(Store, pid, ti, d, st, dl) = rule
           /\ r.res = ErrorKind(rule)
           /\ r.res # "ok" => r.S = Store
           /\ r.res = "ok" => r.id \notin LiveT /\ r.id \in DOMAIN r.S.tasks

\* a create_task in a deleted project with the task limit reached was just
\* refused with ProjectNotFound
C16_Witness ==
    /\ last.op = "create_task"
    /\ last.res = "ProjectNotFound"
    /\ Cardinality(LiveT) = MAX_NUMBER_OF_TASK
    /\ Cardinality(LiveP) = 1

\* no live project has a name that differs from n in letter case only
CaseClear(n) == \A p \in LiveP : SameNoCase(projects[p].name, n) => projects[p].name = n

\* the error kind of each raise statement of create_project
ProjectErrorKind(rule) ==
    CASE rule = "limit" -> "ProjectLimitReached"
      [] rule = "unique" -> "DuplicateProjectName"
      [] rule = "none" -> "ok"
      [] OTHER -> "ValidationError"

\* C17: create_project checks name word count, description word count,
\* project limit, name collision in this order: with several rules violated
\* at once the error raised is that of the earliest violated rule (an
\* over-long name at the limit gives ValidationError, a colliding name at the
\* limit gives ProjectLimitReached), and on any failure no project is stored.
C17_CreateProjectOrder ==
    \A n \in {na, nb, NameAtLimit, NameOverLimit}, d \in {<<>>, DescOverLimit} :
        CaseClear(n) =>
            LET r == create_project(Store, backend, n, d, clock)
                rule == IF n = NameOverLimit THEN "name"
                        ELSE IF d = DescOverLimit THEN "description"
                        ELSE IF Cardinality(LiveP) >= MAX_NUMBER_OF_PROJECT THEN "limit"
                        ELSE IF Collides(n, NoId) THEN "unique"
                        ELSE "none"
            IN /\ create_project_raise(Store, backend, n, d) = rule
               /\ r.res = ProjectErrorKind(rule)
               /\ r.res # "ok" => r.S = Store

\* a create_project at the limit was just refused with ProjectLimitReached,
\* the live projects being named a and b, names the call draws from
C17_Witness ==
    /\ last.op = "create_project"
    /\ last.res = "ProjectLimitReached"
    /\ Cardinality(LiveP) = MAX_NUMBER_OF_PROJECT
    /\ \A p \in LiveP : projects[p].name \in {na, nb}

\* the task row expected after a successful update_task: each supplied field
\* at its validated value vd (for the deadline), the others as before
Updated(old, ti, d, st, supplied, vd) ==
    [old EXCEPT !.title = IF ti # None THEN ti ELSE @,
                !.description = IF d # None THEN d ELSE @,
                !.status = IF st # None THEN lower(strip(st)) ELSE @,
                !.deadline = IF supplied THEN vd ELSE @]

\* the store differs from the current one in the row of task t at most, and
\* there in none of project_id and created_at
OnlyTaskChanged(S, t) ==
    /\ S.projects = projects
    /\ DOMAIN S.tasks = LiveT
    /\ \A u \in LiveT \ {t} : S.tasks[u] = tasks[u]
    /\ S.tasks[t].project_id = tasks[t].project_id
    /\ S.tasks[t].created_at = tasks[t].created_at

padded_title == <<" ", "t", " ">>

\* the deadline arguments with the date each denotes
DeadlineCases ==
    {[arg |-> DlNone, supplied |-> FALSE, date |-> NoDate],
     [arg |-> DlStr(d_1231), supplied |-> TRUE, date |-> DateOf(2025, 12, 31)],
     [arg |-> DlDate(ClockStart + TicksPerDay), supplied |-> TRUE,
      date |-> ClockStart + TicksPerDay]}

\* the empty text as a deadline: it denotes no deadline
EmptyDeadlineCase == [arg |-> DlStr(<<>>), supplied |-> TRUE, date |-> NoDate]

FrameHolds(Cases) ==
    \A t \in LiveT :
        /\ \A ti \in {None, padded_title}, d \in {None, dx},
              st \in {None, s_Done}, c \in Cases :
              LET r == update_task(Store, backend, t, ti, d, st, c.arg)
              IN r.res = "ok" =>
                    /\ OnlyTaskChanged(r.S, t)
                    /\ r.S.tasks[t] = Updated(tasks[t], ti, d, st, c.supplied, c.date)
        /\ \A st \in {TODO, DOING, s_Done} :
              LET r == set_task_status(Store, backend, t, st)
              IN /\ OnlyTaskChanged(r.S, t)
                 /\ r.S.tasks[t] = Updated(tasks[t], None, None, st, FALSE, NoDate)

\* C18 as stated: a successful update_task changes only the supplied fields
\* among title, description, status and deadline, each to the supplied
\* (validated) value; the others keep their value; id, project_id and
\* created_at are never changed by update_task or set_task_status.
C18_AsStated == FrameHolds(DeadlineCases \cup {EmptyDeadlineCase})

\* C18 amended: as stated, for a deadline supplied as a date or as a
\* non-empty text; a deadline supplied as the empty text counts as not
\* supplied and the stored deadline keeps its value.
C18_PartialUpdate ==
    /\ FrameHolds(DeadlineCases)
    /\ FrameHolds({[EmptyDeadlineCase EXCEPT !.supplied = FALSE]})

\* an update_task that supplied the status only has just succeeded on a task
\* that keeps its title and its deadline
C18_Witness ==
    /\ last.op = "update_task"
    /\ last.res = "ok"
    /\ \E t \in LiveT : /\ tasks[t].status = DOING
                        /\ tasks[t].deadline = DateOf(2025, 12, 30)
                        /\ tasks[t].title = tT

\* names that are empty after trimming
blank_name == <<" ", "\t">>

\* C19: update_project(pid, name=n) on an existing project, with n trimmed
\* non-empty, of at most 30 words and equal ignoring case to the name of no
\* other project, succeeds and the stored name is exactly the trimmed n, also
\* when n differs from the current name in letter case only, while the
\* description keeps its value; a name empty after trimming fails with
\* ValidationError and changes nothing.
C19_Rename ==
    \A pid \in LiveP :
        /\ \A n \in {na, nA, na_sp, nb, NameAtLimit} :
              ~Collides(strip(n), pid) =>
                 LET r == update_project(Store, backend, pid, n, None)
                 IN /\ r.res = "ok"
                    /\ DOMAIN r.S.projects = LiveP
                    /\ r.S.projects[pid].name = strip(n)
                    /\ r.S.projects[pid].description = projects[pid].description
        /\ \A n \in {<<>>, blank_name} :
              LET r == update_project(Store, backend, pid, n, None)
              IN r.res = "ValidationError" /\ r.S = Store

-----------------------------------------------------------------------------
(* SpecUpdate: two projects; projects updated and deleted, tasks created,  *)
(* updated and deleted, the updates with valid fields or with none         *)

InitUpdate ==
    /\ backend \in {"mem", "db"}
    /\ InitWith(TwoProjects(backend))

NextUpdate ==
    \/ UpdateProject({}, {dx})
    \/ DeleteProject
    \/ CreateTask({1}, {tT}, {<<>>}, {None}, {DlStr(d_1230)})
    \/ UpdateTask({None}, {None}, {None, DOING}, {DlNone})
    \/ DeleteTask({1})

SpecUpdate == InitUpdate /\ [][NextUpdate]_svars

\* C20: an update with no field supplied is rejected and changes nothing:
\* update_project with name and description absent fails with ValidationError
\* for every pid, existing or not; update_task with title, description, status
\* and deadline absent fails with ValidationError on an existing task and with
\* TaskNotFound on a non-existent one.
C20_EmptyUpdate ==
    /\ \A pid \in Pids :
          LET r == update_project(Store, backend, pid, None, None)
          IN r.res = "ValidationError" /\ r.S = Store
    /\ \A tid \in Tids :
          LET r == update_task(Store, backend, tid, None, None, None, DlNone)
          IN /\ r.res = IF tid \in LiveT THEN "ValidationError" ELSE "TaskNotFound"
             /\ r.S = Store

\* an update_task without fields has just been refused on an existing task,
\* while some project ids are live and some are not (every other update_task
\* input of SpecUpdate is valid, so the refusal is the one for the empty update)
C20_Witness ==
    /\ last.op = "update_task"
    /\ last.res = "ValidationError"
    /\ LiveT # {}
    /\ LiveP # {}
    /\ Pids \ LiveP # {}

\* every project name and task title of store S is non-empty, also after
\* trimming, and within the word limits, and so is every description
WellFormed(S) ==
    /\ \A p \in DOMAIN S.projects :
          /\ strip(S.projects[p].name) # <<>>
          /\ word_count(S.projects[p].name) <= NAME_MAX_WORDS
          /\ word_count(S.projects[p].description) <= DESC_MAX_WORDS
    /\ \A t \in DOMAIN S.tasks :
          /\ strip(S.tasks[t].title) # <<>>
          /\ word_count(S.tasks[t].title) <= TASK_TITLE_MAX_WORDS
          /\ word_count(S.tasks[t].description) <= TASK_DESC_MAX_WORDS

\* C21: after any sequence of service operations every live project's name
\* and every live task's title is a non-empty string of at most 30 words and
\* every stored description has at most 150 words; no create or update call
\* persists an empty or whitespace-only name or title.
C21_NonEmpty ==
    /\ WellFormed(Store)
    /\ \A n \in {<<>>, blank_name, nb} :
          /\ WellFormed(create_project(Store, backend, n, <<>>, clock).S)
          /\ \A pid \in LiveP : WellFormed(update_project(Store, backend, pid, n, None).S)
          /\ \A pid \in LiveP :
                WellFormed(create_task(Store, backend, pid, n, <<>>, None, DlNone, clock).S)
          /\ \A tid \in LiveT :
                WellFormed(update_task(Store, backend, tid, n, None, None, DlNone).S)

\* C22: with delete_project wired to cascade (the hook over the in-memory
\* repositories, the storage cascade over SQLAlchemy), every live task's
\* project_id is the id of a live project: create_task stores no task for a
\* non-existent project and no delete leaves a task whose project is gone.
C22_Referential ==
    /\ \A t \in LiveT : tasks[t].project_id \in LiveP
    /\ \A pid \in Pids \ LiveP :
          LET r == create_task(Store, backend, pid, tT, <<>>, None, DlNone, clock)
          IN r.res = "ProjectNotFound" /\ r.S = Store
    /\ \A pid \in LiveP :
          LET r == delete_project(Store, backend, pid)
          IN \A t \in DOMAIN r.S.tasks : r.S.tasks[t].project_id \in DOMAIN r.S.projects
    /\ \A pid \in Pids, t \in LiveT :
          LET r == delete_task(Store, backend, pid, t)
          IN \A u \in DOMAIN r.S.tasks : r.S.tasks[u].project_id \in DOMAIN r.S.projects

\* a create_task naming a deleted project was just refused, after tasks had
\* been created, and the one task left belongs to the one live project
C22_Witness ==
    /\ last.op = "create_task"
    /\ last.res = "ProjectNotFound"
    /\ next_tid = 3
    /\ Cardinality(LiveP) = 1
    /\ Cardinality(LiveT) = 1
    /\ \A t \in LiveT : tasks[t].project_id \in LiveP

\* the call just made was a successful op
Succeeded(op) == last'.op = op /\ last'.res = "ok"

C24_ClosedAt ==
    [][last'.op # "autoclose" =>
          /\ \A t \in DOMAIN tasks' \ LiveT : tasks'[t].closed_at = NoDate
          /\ \A t \in DOMAIN tasks' \cap LiveT :
                tasks'[t].closed_at = tasks[t].closed_at]_svars

\* a set_task_status has just succeeded, and a task closed by the job that
\* is no longer done still has its closed_at, while a task that is done was
\* never closed by the job
C24_Witness ==
    /\ last.op = "set_task_status"
    /\ last.res = "ok"
    /\ \E t \in LiveT : tasks[t].closed_at # NoDate /\ tasks[t].status # DONE
    /\ \E t \in LiveT : tasks[t].closed_at = NoDate /\ tasks[t].status = DONE

\* 2025-12-31 in the basic ISO form, without hyphens
d_basic == <<"2","0","2","5","1","2","3","1">>

\* the create_task arguments of C25 with the value each is to store;
\* ok = FALSE marks a deadline text that is not of the form YYYY-MM-DD
StatusCases ==
    {[arg |-> None, stored |-> TODO], [arg |-> s_Done, stored |-> DONE],
     [arg |-> DOING, stored |-> DOING]}

DeadlineTexts(Bad) ==
    {[arg |-> DlNone, ok |-> TRUE, date |-> NoDate],
     [arg |-> DlStr(d_1231), ok |-> TRUE, date |-> DateOf(2025, 12, 31)],
     [arg |-> DlStr(d_1230), ok |-> TRUE, date |-> DateOf(2025, 12, 30)]}
    \cup {[arg |-> DlStr(b), ok |-> FALSE, date |-> NoDate] : b \in Bad}

\* create_task on a live project with room under the task limit stores what
\* C25 says, for the deadline texts Bad taken as ill-formed
CreateTaskStores(Bad) ==
    task_count(Store) < MAX_NUMBER_OF_TASK =>
        \A pid \in LiveP, ti \in {tT, padded_title}, d \in {<<>>, padded_title},
           st \in StatusCases, dl \in DeadlineTexts(Bad) :
            LET r == create_task(Store, backend, pid, ti, d, st.arg, dl.arg, clock)
            IN IF dl.ok
               THEN /\ r.res = "ok"
                    /\ DOMAIN r.S.tasks = LiveT \cup {r.id}
                    /\ r.id \notin LiveT
                    /\ r.S.tasks[r.id].status = st.stored
                    /\ r.S.tasks[r.id].deadline = dl.date
                    /\ r.S.tasks[r.id].title = strip(ti)
                    /\ r.S.tasks[r.id].description = strip(d)
                    /\ r.S.tasks[r.id].project_id = pid
               ELSE r.res = "ValidationError" /\ r.S = Store

\* C25: a successful create_task stores and returns a task whose status is
\* todo when none was supplied and otherwise the supplied status trimmed and
\* lower-cased, whose deadline is null when none was supplied and otherwise
\* the calendar date denoted by the supplied YYYY-MM-DD text, and whose
\* title and description are the supplied texts trimmed; a deadline text not
\* in YYYY-MM-DD form fails with ValidationError and stores nothing.
C25_CreateTask == CreateTaskStores({d_bad, d_basic})

-----------------------------------------------------------------------------
(* SpecList: two projects; tasks created and deleted while the clock moves, *)
(* projects deleted, and the tasks of a project listed                      *)

ListTasks ==
    \E pid \in Pids :
        LET r == list_tasks_for_project(Store, backend, pid)
        IN /\ \E s \in (IF r.res = "ok" THEN r.out ELSE {<<>>}) :
                 last' = Last("list_tasks_for_project", r.res, Len(s), NoDate)
           /\ UNCHANGED <<backend, projects, by_name, tasks, by_project, next_pid,
                          next_tid, clock, sess, db0>>

NextList ==
    \/ CreateTask({1, 2}, {tT}, {<<>>}, {None}, {DlNone})
    \/ DeleteTask({1, 2})
    \/ DeleteProject
    \/ ListTasks
    \/ Tick

SpecList == InitTask /\ [][NextList]_svars

\* C26: list_tasks_for_project on an existing project returns exactly the
\* live tasks of that project, each once, in ascending order of creation
\* time; on a project that does not exist, one just deleted included, it
\* fails with ProjectNotFound.
C26_ListOrder ==
    \A pid \in Pids :
        LET r == list_tasks_for_project(Store, backend, pid)
        IN IF pid \in LiveP
           THEN /\ r.res = "ok"
                /\ r.out # {}
                /\ \A s \in r.out :
                      /\ {s[i] : i \in DOMAIN s} = {t \in LiveT : tasks[t].project_id = pid}
                      /\ \A i \in DOMAIN s, j \in DOMAIN s : i # j => s[i] # s[j]
                      /\ \A i \in DOMAIN s, j \in DOMAIN s :
                            i < j => tasks[s[i]].created_at <= tasks[s[j]].created_at
           ELSE r.res = "ProjectNotFound"

\* two tasks of one project created at different times have just been
\* listed, the other project being deleted
C26_Witness ==
    /\ last.op = "list_tasks_for_project"
    /\ last.res = "ok"
    /\ last.n = 2
    /\ \E t \in LiveT, u \in LiveT :
          /\ tasks[t].project_id = tasks[u].project_id
          /\ tasks[t].created_at < tasks[u].created_at
    /\ Cardinality(LiveP) = 1

-----------------------------------------------------------------------------
(* SpecPatch: PATCH requests on task 1 of project 1, under the right and   *)
(* under the wrong project id, beside one run of the overdue job           *)

PatchOps ==
    {PatchOp(1, 1, DOING, DlNone),
     PatchOp(2, 1, DOING, DlNone),
     PatchOp(2, 1, None, DlDate(ClockStart + TicksPerDay)),
     PatchOp(2, 3, DOING, DlNone)}

NextPatch ==
    \/ TxAcquireJob
    \/ TxAcquireUser(PatchOps)
    \/ TxRead
    \/ TxFlush
    \/ TxReject
    \/ TxCommit
    \/ TxFail
    \/ TxRollback
    \/ TxClose

SpecPatch == InitTx /\ [][NextPatch]_svars

\* the request of session "U" names a live task under a project id that is
\* not the task's
WrongProject ==
    /\ sess["U"].op.kind = "patch_task"
    /\ sess["U"].op.id \in DOMAIN db0.tasks
    /\ db0.tasks[sess["U"].op.id].project_id # sess["U"].op.project_id

\* C27: a PATCH of a task through update_task_for_project with a project_id
\* that is not the task's is rejected with status 400: once update_task has
\* returned, the handler's next step is the HTTPException and the rollback
\* branch of get_db, never the commit; and when the request's unit of work
\* has ended the task's stored title, description, status and deadline are
\* those from before the request (the status done being the overdue job's
\* doing, if it ran).
C27_PatchRejected ==
    /\ [][(WrongProject /\ sess["U"].pc = "flush" /\ sess["U"].todo = {}
           /\ sess'["U"].trace # sess["U"].trace)
          => /\ sess'["U"].trace = Append(sess["U"].trace, "HTTP 400")
             /\ sess'["U"].pc = "except"]_svars
    /\ [](WrongProject /\ sess["U"].pc = "closed" =>
            LET t == sess["U"].op.id
            IN /\ t \in LiveT
               /\ tasks[t].title = db0.tasks[t].title
               /\ tasks[t].description = db0.tasks[t].description
               /\ tasks[t].deadline = db0.tasks[t].deadline
               /\ tasks[t].project_id = db0.tasks[t].project_id
               /\ \/ tasks[t].status = db0.tasks[t].status
                  \/ /\ tasks[t].status = DONE
                     /\ tasks[t].closed_at = sess["J"].op.now)

\* a PATCH under the wrong project id has flushed its UPDATE of the task,
\* was answered 400 and rolled back, and its session is closed
C27_Witness ==
    /\ WrongProject
    /\ sess["U"].pc = "closed"
    /\ sess["U"].flushed = {1}
    /\ sess["U"].trace = <<"acquire", "body", "HTTP 400", "rollback", "close">>
    /\ tasks = db0.tasks

-----------------------------------------------------------------------------
(* SpecIndex: every operation that writes an index of the in-memory        *)
(* repositories, from the empty store                                      *)

NextIndex ==
    \/ CreateProject({na, nA, na_sp}, {<<>>})
    \/ UpdateProject({nb, nA}, {})
    \/ DeleteProject
    \/ CreateTask({1, 2}, {tT}, {<<>>}, {None}, {DlNone})
    \/ DeleteTask({1, 2})

SpecIndex == InitProj /\ [][NextIndex]_svars

\* the indices of store S agree with its primary maps
IndexOk(S) ==
    /\ DOMAIN S.by_name = {lower(S.projects[p].name) : p \in DOMAIN S.projects}
    /\ \A p \in DOMAIN S.projects : S.by_name[lower(S.projects[p].name)] = p
    /\ DOMAIN S.by_project = {S.tasks[t].project_id : t \in DOMAIN S.tasks}
    /\ \A k \in DOMAIN S.by_project :
          S.by_project[k] = {t \in DOMAIN S.tasks : S.tasks[t].project_id = k}

\* C28: in the in-memory repositories the secondary indices agree with the
\* primary maps after any sequence of service operations: the name index
\* holds exactly one entry lower(name) -> id for each live project and
\* nothing else, and the task index maps each project id to exactly the set
\* of ids of its live tasks, with no entry for a deleted task and no empty
\* set left behind.
C28_IndexConsistent == backend = "mem" => IndexOk(Store)

\* over the in-memory repositories a delete_task has just emptied the index
\* entry of one project while the other project, which was renamed, still
\* has a task
C28_Witness ==
    /\ backend = "mem"
    /\ last.op = "delete_task"
    /\ last.res = "ok"
    /\ Cardinality(DOMAIN by_project) = 1
    /\ Cardinality(LiveP) = 2
    /\ \E p \in DOMAIN by_project : projects[p].name = nb

\* the name N is free in store S: get_by_name(N) finds nothing, and
\* create_project(N), with the count below the limit, succeeds
Released(S, N) ==
    /\ get_by_name(S, backend, N) = NoId
    /\ project_count(S) < MAX_NUMBER_OF_PROJECT =>
          create_project(S, backend, N, <<>>, clock).res = "ok"

\* C29: a project name is released as soon as it is no longer in use: after
\* delete_project(pid), or after a successful rename of pid from N to a name
\* that differs from N ignoring case, get_by_name(N) returns None and a
\* create_project(N), with the count below the limit, succeeds.
C29_NameReleased ==
    \A pid \in LiveP :
        LET N == projects[pid].name
        IN /\ LET r == delete_project(Store, backend, pid)
              IN r.res = "ok" /\ Released(r.S, N)
           /\ \A n \in ProjNames :
                 LET r == update_project(Store, backend, pid, n, None)
                 IN (r.res = "ok" /\ ~SameNoCase(r.S.projects[pid].name, N))
                       => Released(r.S, N)

\* a create_project has just succeeded with project 1 deleted before it, and
\* an update_project can rename the new project to a name that differs
\* ignoring case
C29_Witness ==
    /\ last.op = "create_project"
    /\ last.res = "ok"
    /\ LiveP = {2}
    /\ \E n \in ProjNames :
          LET r == update_project(Store, backend, 2, n, None)
          IN r.res = "ok" /\ ~SameNoCase(r.S.projects[2].name, projects[2].name)

\* C30: once a task has a deadline, no sequence of TaskService operations
\* returns it to having none: update_task with the deadline absent (None)
\* or the empty string leaves the stored deadline unchanged, and update_task
\* with only deadline = "" returns the task unchanged without raising.
C30_DeadlineKept ==
    /\ [][\A t \in LiveT \cap DOMAIN tasks' :
             tasks[t].deadline # NoDate => tasks'[t].deadline # NoDate]_svars
    /\ [](\A t \in LiveT :
            /\ \A ti \in {None, dx}, st \in {None, DOING, s_Done},
                  dl \in {DlNone, DlStr(<<>>)} :
                  LET r == update_task(Store, backend, t, ti, None, st, dl)
                  IN r.res = "ok" => r.S.tasks[t].deadline = tasks[t].deadline
            /\ LET r == update_task(Store, backend, t, None, None, None, DlStr(<<>>))
               IN r.res = "ok" /\ r.S = Store /\ r.id = t
            /\ \A st \in {TODO, DOING, s_Done} :
                  set_task_status(Store, backend, t, st).S.tasks[t].deadline
                     = tasks[t].deadline)

\* an update_task has just succeeded with two tasks stored, each with a
\* deadline
C30_Witness ==
    /\ last.op = "update_task"
    /\ last.res = "ok"
    /\ Cardinality(LiveT) = 2
    /\ \A t \in LiveT : tasks[t].deadline # NoDate

====
